---- MODULE Spec2Model ----
(***************************************************************************)
(* A model of the stock-monitoring Discord bot: the HTTP interaction       *)
(* handler and its asynchronous continuation, the queue consumer, the      *)
(* monitored-stock repository, the alert engine, and the notification      *)
(* client's and the security module's rate limiters.                       *)
(*                                                                         *)
(* Each component has its own specification (SpecHttp, SpecQueue, ...):    *)
(* its Init starts every variable, its Next moves only the component's     *)
(* own variables and leaves the others unchanged.                          *)
(***************************************************************************)
EXTENDS Integers, Sequences, FiniteSets, TLC

VARIABLES
    http,        \* interaction id -> what handle_interaction did with it
    asyncEvents, \* async re-invocations accepted by the function runtime, not yet run
    original,    \* interaction id -> what the user's original message shows
    nextId,      \* the next interaction id
    queueBatch,  \* the queue batch last handed to the consumer
    queueResult, \* what the consumer returned for it
    queueVisited,\* the message ids whose record the consumer's loop reached
    queueSent,   \* the webhook requests the consumer made for the batch
    stocks,      \* the monitored-stock table: symbol -> {} or {item}
    lastCall,    \* the last StockRepository call: arguments, table before, result
    now,         \* the clock of the notification process, in minutes
    sent_alerts, \* DuplicateFilter.sent_alerts: alert key -> {} or {time}
    requests,    \* RateLimiter.requests of the notification client: times
    recent_alerts, \* AlertHistory.recent_alerts: alert key -> {} or {time}
    lastSend,    \* the last call on the notification client and what it did
    alertLog,    \* every alert process_alerts has been given, with its fate
    secNow,      \* the clock of the security rate limiter, in ticks
    secTicks,    \* how often that clock has moved
    user_requests, \* RateLimiter.user_requests: user -> times of admitted requests
    blocked_users, \* RateLimiter.blocked_users: user -> {} or {block_until}
    recentCalls, \* user -> times of the check_rate_limit calls of the last minute
    lastCheck,   \* the last check_rate_limit call and its answer
    admittedLog, \* user -> times of every call check_rate_limit admitted
    secCalls,    \* how many check_rate_limit calls have been made
    admin_users, \* CommandPermissionManager.admin_users
    allowed_channels, \* CommandPermissionManager.allowed_channels
    cmdLast,     \* the last process_message call: arguments, what ran, what it returned
    alpha_vantage_api_key, \* StockDataProvider.alpha_vantage_api_key: {} for None, or {key}
    provLast,    \* the last get_current_price call: arguments, source calls, outcome
    portfolios,  \* PortfolioService._portfolios, in insertion order
    holdings,    \* PortfolioService._holdings: every holding, in insertion order
    addCreated,  \* ids of the portfolios the add command created
    pfLast,      \* the last portfolio operation: arguments and outcome
    entryLast,   \* the last lambda_handler call: event, path taken, response
    sweepLast,   \* the last P&L sweep: target users, what each met, results
    paramStore,  \* the secret store: parameter name -> {} (no such parameter) or {value}
    paramCache,  \* the lru_cache of Config.get_parameter, least recently used first
    ssmContacts, \* parameter name -> how often the secret store was asked for it
    firstReturned, \* call arguments -> {} or {what the first such call returned}
    cfgLast,     \* the last get_parameter call: arguments and what it returned
    volume_history, \* AlertEngine._volume_history: symbol -> kept samples
    volumeArrived,  \* symbol -> every sample update_volume_history was given
    lightLast,   \* the last request to the lightweight handler and its answer
    commands,    \* the /add, /remove and /alert commands in flight, one per invocation
    sending,     \* the send_alert calls in flight on the one DiscordHandler
    alertTable,  \* the alerts table: the alerts stored so far
    alertClock,  \* the time, in minutes
    dupLast,     \* the last check_duplicate_alert call and its answer
    holdings_table,  \* the holdings table: holding_id -> {} or {item}
    repoClock,       \* the time of the next repository call
    repoLast,        \* the last PortfolioRepository call
    chartLast,   \* the last /chart command: the history fetched and the reply
    engineLock,  \* AlertEngine._lock: 0 when free, else the call holding it
    engineCalls  \* the process_alerts calls on the one AlertEngine

httpVars == <<http, asyncEvents, original, nextId>>
queueVars == <<queueBatch, queueResult, queueVisited, queueSent>>
storeVars == <<stocks, lastCall>>
notifyVars == <<now, sent_alerts, requests, recent_alerts, lastSend, alertLog>>
secVars ==
    <<secNow, secTicks, user_requests, blocked_users, recentCalls, lastCheck, admittedLog,
      secCalls>>
cmdVars == <<admin_users, allowed_channels, cmdLast>>
provVars == <<alpha_vantage_api_key, provLast>>
pfVars == <<portfolios, holdings, addCreated, pfLast>>
entryVars == <<entryLast>>
sweepVars == <<sweepLast>>
cfgVars == <<paramStore, paramCache, ssmContacts, firstReturned, cfgLast>>
volVars == <<volume_history, volumeArrived>>
lightVars == <<lightLast>>
raceVars == <<commands>>
sendVars == <<sending>>
dupVars == <<alertTable, alertClock, dupLast>>
repoVars == <<holdings_table, repoClock, repoLast>>
chartVars == <<chartLast>>
engineVars == <<engineLock, engineCalls>>
vars == <<httpVars, queueVars, storeVars, notifyVars, secVars, cmdVars, provVars, pfVars, entryVars, sweepVars, cfgVars, volVars, lightVars, raceVars, sendVars, dupVars, repoVars, chartVars, engineVars>>

\* ------------------------------------------------------------------------
\* Bounds
\* ------------------------------------------------------------------------
MaxInteractions == 2
MaxBatch == 3
MaxThreshold == 2
MaxTime == 32         \* minutes
MaxAlertBatch == 2
MaxLog == 3
MaxSecTicks == 2
TicksPerMinute == 2   \* resolution of the security rate limiter's clock
MaxAgedCalls == 12    \* check_rate_limit calls on the limiter that has been in use
MaxCalls == 21        \* check_rate_limit calls by one user within one minute

\* ------------------------------------------------------------------------
\* Requests: headers and raw body as the handler sees them
\* ------------------------------------------------------------------------

\* A raw body (and a timestamp header) is a sequence of pieces.  A piece is
\* a run of decimal digits, a complete JSON document, or junk.
Piece(k, type, name, wf, token, app) ==
    [k |-> k, type |-> type, name |-> name, wf |-> wf, token |-> token, app |-> app]

Digits == Piece("digits", 0, "", TRUE, FALSE, FALSE)
Junk   == Piece("junk", 0, "", TRUE, FALSE, FALSE)
\* a JSON value that is not an object (interaction_data.get raises)
JsonList == Piece("jsonlist", 0, "", TRUE, FALSE, FALSE)
\* a JSON object: type, data.name, whether data/member are objects (wf),
\* whether token and application_id are non-empty
Doc(type, name, wf, token, app) == Piece("doc", type, name, wf, token, app)

CommandNames == {"status", "help", "add", "price", "bogus"}

Docs ==
    {Doc(1, "", TRUE, TRUE, TRUE), Doc(3, "", TRUE, TRUE, TRUE)}
    \cup {Doc(2, n, TRUE, TRUE, TRUE) : n \in CommandNames}
    \cup {Doc(2, "add", TRUE, FALSE, TRUE), Doc(2, "add", FALSE, TRUE, TRUE)}

\* The bodies the key holder signs, each with the timestamp <<Digits>>.
SignedBodies == {<<d>> : d \in Docs} \cup {<<Junk>>, <<JsonList>>}
TimestampHeaders == {<< >>, <<Digits>>}        \* << >>: header absent
SignedMessages == {<<Digits>> \o b : b \in SignedBodies}

\* Any request may carry a signed body, or a signed message whole as its body.
Bodies == SignedBodies \cup SignedMessages

\* The X-Signature-Ed25519 header value: its length, whether it is hex, and
\* the message it is a valid Ed25519 signature of under the configured key
\* (<<Junk, Junk>> for a signature of nothing that was signed).
Forged == <<Junk, Junk>>
Sig(present, len128, hex, signs) ==
    [present |-> present, len128 |-> len128, hex |-> hex, signs |-> signs]
SignatureHeaders ==
    {Sig(FALSE, FALSE, TRUE, Forged),      \* header absent: signature = ''
     Sig(TRUE, FALSE, TRUE, Forged),       \* hex, wrong length
     Sig(TRUE, TRUE, FALSE, Forged),       \* 128 characters, not hex
     Sig(TRUE, TRUE, TRUE, Forged)}        \* 128 hex characters, bad signature
    \cup {Sig(TRUE, TRUE, TRUE, m) : m \in SignedMessages}
    \cup {Sig(TRUE, FALSE, TRUE, m) : m \in {<<Digits, Doc(1, "", TRUE, TRUE, TRUE)>>}}

\* The requests the model draws from: every signature header with a few
\* bodies, and every body with the signatures made for it (sent whole, or
\* with its timestamp header stripped, or moved into the body).
ProbeBodies == {<<Doc(1, "", TRUE, TRUE, TRUE)>>, <<Doc(2, "add", TRUE, TRUE, TRUE)>>,
                <<Digits, Doc(2, "add", TRUE, TRUE, TRUE)>>}
Requests ==
    {r \in [sig : SignatureHeaders, ts : TimestampHeaders, body : Bodies] :
        \/ r.body \in ProbeBodies
        \/ r.sig.signs = <<Digits>> \o r.body
        \/ r.sig.signs = r.body}

\* ------------------------------------------------------------------------
\* InteractionsHandler (handlers/interactions_handler.py)
\* ------------------------------------------------------------------------

\* verify_signature: length check, hex check, then Ed25519 over the
\* concatenation timestamp + body; every exception gives False.
verify_signature_nolen(signature, timestamp, body) ==
    signature.hex /\ signature.signs = timestamp \o body

verify_signature(signature, timestamp, body) ==
    /\ signature.len128
    /\ signature.hex
    /\ signature.signs = timestamp \o body

\* json.loads(body) returns a value only for a body that is one JSON text.
JsonLoads(body) == Len(body) = 1 /\ body[1].k \in {"doc", "jsonlist"}

SyncCommands == {"status", "help"}

\* What one call of the handler produced.
Outcome(status, kind, parsed, invokes, syncRuns, shown, event) ==
    [status |-> status, kind |-> kind, parsed |-> parsed, invokes |-> invokes,
     syncRuns |-> syncRuns, shown |-> shown, event |-> event]

NoEvent == {}

AsyncPayload(id, doc) ==
    [id |-> id, name |-> doc.name, token |-> doc.token, app |-> doc.app]

\* _handle_application_command: status and help run _process_slash_command
\* in the request; every other name calls lambda invoke once (a failure of
\* the call is logged and swallowed) and returns the placeholder.  An
\* exception while reading the fields gives the ephemeral failure message.
handle_application_command_inline(id, doc, invokeOk) ==
    IF ~doc.wf
    THEN Outcome(200, "errmsg", TRUE, 0, 0, "errmsg", NoEvent)
    ELSE Outcome(200, "sync", TRUE, 0, 1, "sync", NoEvent)

handle_application_command(id, doc, invokeOk) ==
    IF ~doc.wf
    THEN Outcome(200, "errmsg", TRUE, 0, 0, "errmsg", NoEvent)
    ELSE IF doc.name \in SyncCommands
    THEN Outcome(200, "sync", TRUE, 0, 1, "sync", NoEvent)
    ELSE Outcome(200, "placeholder", TRUE, 1, 0, "placeholder",
                 IF invokeOk THEN {AsyncPayload(id, doc)} ELSE NoEvent)

\* handle_interaction: verify, parse, route by interaction type.
handle_interaction(id, r, invokeOk) ==
    IF ~verify_signature(r.sig, r.ts, r.body)
    THEN Outcome(401, "unauthorized", FALSE, 0, 0, "none", NoEvent)
    ELSE IF ~JsonLoads(r.body) \/ r.body[1].k # "doc"
    THEN Outcome(500, "error", TRUE, 0, 0, "none", NoEvent)
    ELSE IF r.body[1].type = 1
    THEN Outcome(200, "pong", TRUE, 0, 0, "none", NoEvent)
    ELSE IF r.body[1].type = 2
    THEN handle_application_command(id, r.body[1], invokeOk)
    ELSE Outcome(400, "unknown_type", TRUE, 0, 0, "none", NoEvent)

NoRequest == [sig |-> Sig(FALSE, FALSE, TRUE, Forged), ts |-> << >>, body |-> << >>]

Ids == 1..MaxInteractions

HttpInit ==
    /\ http = [id |-> 0, req |-> NoRequest,
               out |-> Outcome(0, "none", FALSE, 0, 0, "none", NoEvent)]
    /\ asyncEvents = {}
    /\ original = [i \in Ids |-> "none"]
    /\ nextId = 1

\* One HTTP request arrives and is answered.
HandleInteraction ==
    /\ nextId \in Ids
    /\ \E r \in Requests, invokeOk \in BOOLEAN :
         LET out == handle_interaction(nextId, r, invokeOk) IN
         /\ http' = [id |-> nextId, req |-> r, out |-> out]
         /\ asyncEvents' = asyncEvents \cup out.event
         /\ original' = [original EXCEPT ![nextId] = out.shown]
    /\ nextId' = nextId + 1

\* ------------------------------------------------------------------------
\* handle_async_discord_command (handlers/main.py)
\* ------------------------------------------------------------------------
PatchResults == {"ok", "rejected", "raise"}

\* The message after a PATCH of the original response with `content`.
Patched(shown, result, content) == IF result = "ok" THEN content ELSE shown

\* The event's command runs (_process_slash_command returns a text, it
\* never raises) and the text is PATCHed onto the original message; a
\* missing public key returns 500 at once; an exception (the PATCH raised)
\* leads to one more PATCH, of the failure text, if application id and
\* token are both non-empty.
handle_async_discord_command(shown, e, keyConfigured, patch1, patch2) ==
    IF ~keyConfigured THEN shown
    ELSE IF patch1 # "raise" THEN Patched(shown, patch1, "result")
    ELSE IF e.app /\ e.token THEN Patched(shown, patch2, "failure")
    ELSE shown

\* The runtime runs one accepted event.  The platform answers 200 only to
\* a PATCH whose URL carries an application id and a token.
HandleAsync ==
    /\ \E e \in asyncEvents, keyConfigured \in BOOLEAN,
          patch1 \in PatchResults, patch2 \in PatchResults :
         /\ (e.app /\ e.token) \/ patch1 # "ok"
         /\ asyncEvents' = asyncEvents \ {e}
         /\ original' = [original EXCEPT ![e.id] =
               handle_async_discord_command(@, e, keyConfigured, patch1, patch2)]
    /\ UNCHANGED <<http, nextId>>

\* ------------------------------------------------------------------------
\* Queue consumer (src/discord_processor.py)
\* ------------------------------------------------------------------------

\* A queue record: its message id, what its body holds, and what the
\* environment does while it is processed (is the public key configured,
\* how the webhook request ends).
RecordBodies == {"nobody", "badjson", "jsonlist", "ping", "command", "command_nocreds", "other"}
QueueRecords ==
    {r \in [body : RecordBodies, key : BOOLEAN, post : PatchResults] :
        r.body \in {"command", "command_nocreds"} \/ (r.key /\ r.post = "ok")}

\* send_discord_response: one POST to the interaction's webhook URL; it
\* re-raises a transport error and only logs a non-200 answer.
send_discord_response(id, content, result) ==
    [id |-> id, method |-> "POST", path |-> "webhooks/app/token",
     content |-> content, result |-> result]

\* process_application_command: [success, sent].  A missing key, a missing
\* token or application id, or a raising POST ends in the except branch,
\* which tries to send the failure text when token and id are there.
process_application_command(id, r) ==
    LET creds == r.body = "command"
        failure == IF creds
                   THEN <<send_discord_response(id, "failure", r.post)>> ELSE << >>
    IN  IF ~r.key \/ ~creds
        THEN [success |-> FALSE, sent |-> failure]
        ELSE IF r.post = "raise"
        THEN [success |-> FALSE,
              sent |-> <<send_discord_response(id, "result", r.post)>> \o failure]
        ELSE [success |-> TRUE,
              sent |-> <<send_discord_response(id, "result", r.post)>>]

\* process_discord_interaction on the parsed body: PING is a success,
\* a command goes to process_application_command, anything else (and any
\* exception) is a failure.
process_discord_interaction(id, r) ==
    IF r.body = "ping" THEN [success |-> TRUE, sent |-> << >>]
    ELSE IF r.body \in {"command", "command_nocreds"}
    THEN process_application_command(id, r)
    ELSE [success |-> FALSE, sent |-> << >>]

\* One pass of the handler's loop body: a record without body, or whose
\* body is not JSON, raises before processing and is caught by the loop.
RecordFailed(id, r) ==
    r.body \in {"nobody", "badjson"} \/ ~process_discord_interaction(id, r).success

RECURSIVE handler_loop_abort(_, _)
handler_loop_abort(records, i) ==
    IF i > Len(records) THEN [failed |-> << >>, visited |-> << >>, sent |-> << >>]
    ELSE IF RecordFailed(i, records[i])
    THEN [failed |-> <<i>>, visited |-> <<i>>, sent |-> << >>]
    ELSE LET rest == handler_loop_abort(records, i + 1) IN
         [failed |-> rest.failed, visited |-> <<i>> \o rest.visited, sent |-> rest.sent]

\* The loop over event['Records'], from record i on; the message id of the
\* i-th record is i.
RECURSIVE handler_loop(_, _)
handler_loop(records, i) ==
    IF i > Len(records) THEN [failed |-> << >>, visited |-> << >>, sent |-> << >>]
    ELSE LET rest == handler_loop(records, i + 1)
             sentHere == IF records[i].body \in {"nobody", "badjson"} THEN << >>
                         ELSE process_discord_interaction(i, records[i]).sent
         IN  [failed  |-> (IF RecordFailed(i, records[i]) THEN <<i>> ELSE << >>)
                              \o rest.failed,
              visited |-> <<i>> \o rest.visited,
              sent    |-> sentHere \o rest.sent]

\* handler's return value.
handler_response(records, failed) ==
    IF failed # << >>
    THEN [batchItemFailures |-> failed]
    ELSE [statusCode |-> 200, processed |-> Len(records)]

Batches == UNION {[1..n -> QueueRecords] : n \in 0..MaxBatch}

QueueInit ==
    /\ queueBatch = << >>
    /\ queueResult = [statusCode |-> 0, processed |-> 0]
    /\ queueVisited = << >>
    /\ queueSent = << >>

\* The queue hands the consumer one batch (the consumer keeps nothing
\* between batches, so one batch per behaviour covers them all).
QueueHandler ==
    /\ queueResult = [statusCode |-> 0, processed |-> 0]
    /\ \E records \in Batches :
         LET run == handler_loop(records, 1) IN
         /\ queueBatch' = records
         /\ queueResult' = handler_response(records, run.failed)
         /\ queueVisited' = run.visited
         /\ queueSent' = run.sent

\* ------------------------------------------------------------------------
\* StockRepository (repositories/stock_repository.py)
\* ------------------------------------------------------------------------

\* An optional value is {} (None) or {v}.
Symbols == {"AAPL", "TSLA"}
LongSymbol == "LONGSYMBOL01"               \* more than 10 characters
Thresholds == {{}} \cup {{v} : v \in -1..MaxThreshold}
Stock(symbol, upper, lower) == [symbol |-> symbol, upper |-> upper, lower |-> lower]
StockArgs ==
    {Stock(s, u, l) : s \in Symbols \cup {LongSymbol}, u \in Thresholds, l \in {{}, {1}}}

\* The outcome of a repository call: the table after it and what the
\* caller gets ("true", "false", or "raise" for an exception).
CallResult(table, result) == [table |-> table, result |-> result]

\* An optional threshold as create writes it: a falsy value (None or 0)
\* is left out of the item.
Truthy(opt) == IF opt = {0} THEN {} ELSE opt

create_monitored_stock_put(table, stock, storeOk) ==
    IF Len(stock.symbol) > 10 \/ ~storeOk THEN CallResult(table, "raise")
    ELSE CallResult([table EXCEPT ![stock.symbol] =
                        {Stock(stock.symbol, Truthy(stock.upper), Truthy(stock.lower))}],
                    "true")

\* create_monitored_stock: put_item under attribute_not_exists(symbol).
create_monitored_stock(table, stock, storeOk) ==
    IF Len(stock.symbol) > 10 \/ ~storeOk THEN CallResult(table, "raise")
    ELSE IF table[stock.symbol] # {} THEN CallResult(table, "false")
    ELSE CallResult([table EXCEPT ![stock.symbol] =
                        {Stock(stock.symbol, Truthy(stock.upper), Truthy(stock.lower))}],
                    "true")

\* update_monitored_stock: update_item under attribute_exists(symbol).
\* The update expression is "SET ..." followed, per threshold, by
\* ", name = :v" when it is set and " REMOVE name" when it is None: with
\* the upper threshold None the text after the first REMOVE is ", lower =
\* :lower" or a second REMOVE, which the store rejects as invalid before it
\* looks at the item (ValidationException, re-raised as ValueError).
update_monitored_stock(table, stock, storeOk) ==
    IF stock.upper = {} \/ ~storeOk THEN CallResult(table, "raise")
    ELSE IF table[stock.symbol] = {} THEN CallResult(table, "false")
    ELSE CallResult([table EXCEPT ![stock.symbol] =
                        {Stock(stock.symbol, stock.upper, stock.lower)}], "true")

\* delete_monitored_stock: delete_item under attribute_exists(symbol).
delete_monitored_stock(table, symbol, storeOk) ==
    IF Len(symbol) > 10 \/ ~storeOk THEN CallResult(table, "raise")
    ELSE IF table[symbol] = {} THEN CallResult(table, "false")
    ELSE CallResult([table EXCEPT ![symbol] = {}], "true")

StoreInit ==
    /\ stocks = [s \in Symbols \cup {LongSymbol} |-> {}]
    /\ lastCall = [op |-> "none", symbol |-> "", before |-> stocks, result |-> "none"]

\* Some invocation's repository call reaches the table.  Calls of
\* concurrent invocations touch the table only in their one conditional
\* write, so their interleavings are the orders of these steps.
RepositoryCall(op, symbol, out) ==
    /\ lastCall' = [op |-> op, symbol |-> symbol, before |-> stocks, result |-> out.result]
    /\ stocks' = out.table

CreateStock ==
    \E stock \in StockArgs, storeOk \in BOOLEAN :
        RepositoryCall("create", stock.symbol, create_monitored_stock(stocks, stock, storeOk))

UpdateStock ==
    \E stock \in StockArgs, storeOk \in BOOLEAN :
        RepositoryCall("update", stock.symbol, update_monitored_stock(stocks, stock, storeOk))

DeleteStock ==
    \E symbol \in Symbols \cup {LongSymbol}, storeOk \in BOOLEAN :
        RepositoryCall("delete", symbol, delete_monitored_stock(stocks, symbol, storeOk))

\* ------------------------------------------------------------------------
\* Notification client (handlers/discord_handler.py)
\* ------------------------------------------------------------------------
MaxRequestsDefault == 5          \* RateLimiter max_requests
TimeWindow == 60                 \* RateLimiter time_window, seconds
CooldownMinutes == 15            \* DuplicateFilter cooldown_minutes
DuplicatePreventionMinutes == 30 \* AlertHistory duplicate_prevention_minutes
CleanupHours == 24               \* AlertHistory.cleanup_old_records
SecondsPerMinute == 60

Alert(symbol, type, threshold) ==
    [symbol |-> symbol, alert_type |-> type, threshold_value |-> threshold]
Alerts == {Alert("AAPL", "price_upper", 100), Alert("AAPL", "price_upper", 200),
           Alert("AAPL", "price_lower", 100), Alert("TSLA", "price_upper", 100)}

\* _generate_alert_key: "symbol:alert_type:threshold_value".  The alert
\* types hold no ':' and a Decimal prints none, so the three parts can be
\* read back from the text: the key is the triple.
generate_alert_key(alert) == <<alert.symbol, alert.alert_type, alert.threshold_value>>
AlertKeys == {generate_alert_key(a) : a \in Alerts}

\* DuplicateFilter.should_send_alert at time t: entries older than the
\* cooldown are dropped, a key still there refuses, a new key is recorded.
Purged(sent, t) ==
    [k \in AlertKeys |-> {x \in sent[k] : ~(t - x > CooldownMinutes)}]

should_send_alert_norecord(sent, alert, t) ==
    [ok |-> Purged(sent, t)[generate_alert_key(alert)] = {}, sent |-> Purged(sent, t)]

should_send_alert(sent, alert, t) ==
    LET key == generate_alert_key(alert)
        kept == Purged(sent, t)
    IN  IF kept[key] # {} THEN [ok |-> FALSE, sent |-> kept]
        ELSE [ok |-> TRUE, sent |-> [kept EXCEPT ![key] = {t}]]

\* RateLimiter.can_send at time t: the requests still in the window, and
\* whether there is room for one more.
InWindow(reqs, t) ==
    SelectSeq(reqs, LAMBDA r : (t - r) * SecondsPerMinute < TimeWindow)

can_send_always(reqs, t) == [ok |-> TRUE, requests |-> InWindow(reqs, t)]

can_send(reqs, t) ==
    [ok |-> Len(InWindow(reqs, t)) < MaxRequestsDefault, requests |-> InWindow(reqs, t)]

\* What a send operation did: its return value, whether the webhook POST
\* was made, and the client's state after it.
Sent(ok, posted, sent, reqs) ==
    [ok |-> ok, posted |-> posted, sent |-> sent, requests |-> reqs]

\* The part the send operations share: rate-limit check, POST, and
\* record_request when the webhook answered 200.
RateLimitedPost(sent, reqs, t, webhookOk) ==
    LET can == can_send(reqs, t) IN
    IF ~can.ok THEN Sent(FALSE, FALSE, sent, can.requests)
    ELSE IF webhookOk THEN Sent(TRUE, TRUE, sent, Append(can.requests, t))
    ELSE Sent(FALSE, TRUE, sent, can.requests)

\* DiscordHandler.send_alert: duplicate check, then the rate-limited POST.
send_alert_late(sent, reqs, alert, t, webhookOk) ==
    LET dup == should_send_alert(sent, alert, t)
        out == RateLimitedPost(Purged(sent, t), reqs, t, webhookOk)
    IN  IF ~dup.ok THEN Sent(FALSE, FALSE, dup.sent, reqs)
        ELSE IF out.ok THEN [out EXCEPT !.sent = dup.sent]
        ELSE out

send_alert(sent, reqs, alert, t, webhookOk) ==
    LET dup == should_send_alert(sent, alert, t) IN
    IF ~dup.ok THEN Sent(FALSE, FALSE, dup.sent, reqs)
    ELSE RateLimitedPost(dup.sent, reqs, t, webhookOk)

\* DiscordHandler.send_status_report: no duplicate check.
send_status_report(sent, reqs, t, webhookOk) == RateLimitedPost(sent, reqs, t, webhookOk)

\* ------------------------------------------------------------------------
\* Alert engine (services/alert_engine.py)
\* ------------------------------------------------------------------------

\* process_alerts builds "symbol_alert_type_threshold_value"; as above the
\* parts can be read back from it.
alert_key(alert) == <<alert.symbol, alert.alert_type, alert.threshold_value>>

history_should_send_always(recent, key, t) == TRUE

\* AlertHistory.should_send_alert
history_should_send(recent, key, t) ==
    recent[key] = {} \/
    \A last \in recent[key] :
        (t - last) * SecondsPerMinute > DuplicatePreventionMinutes * SecondsPerMinute

\* AlertHistory.cleanup_old_records
cleanup_old_records(recent, t) ==
    [k \in AlertKeys |-> {x \in recent[k] : ~(x < t - CleanupHours * 60)}]

\* One entry of the log: the alert, when it was processed, whether
\* send_alert was called, whether the webhook took it, and what
\* process_alerts made of it.
LogEntry(alert, t, called, posted, delivered, is_sent, sent_at, returned) ==
    [key |-> alert_key(alert), time |-> t, called |-> called, posted |-> posted,
     delivered |-> delivered, is_sent |-> is_sent, sent_at |-> sent_at,
     returned |-> returned]

\* The loop of process_alerts from item i on.  An item is an alert with
\* what its delivery meets: the webhook's answer, and whether the injected
\* handler raises (a test double does; DiscordHandler.send_alert catches
\* everything and returns False).
RECURSIVE process_alerts_loop(_, _, _, _, _, _)
process_alerts_loop(items, i, recent, sent, reqs, t) ==
    IF i > Len(items)
    THEN [recent |-> recent, sent |-> sent, requests |-> reqs, log |-> << >>]
    ELSE
    LET alert == items[i].alert
        key == alert_key(alert)
    IN  IF ~history_should_send(recent, key, t)
        THEN LET rest == process_alerts_loop(items, i + 1, recent, sent, reqs, t) IN
             [rest EXCEPT !.log = <<LogEntry(alert, t, FALSE, FALSE, FALSE, FALSE, {}, FALSE)>> \o @]
        ELSE IF items[i].raises
        THEN LET rest == process_alerts_loop(items, i + 1, recent, sent, reqs, t) IN
             [rest EXCEPT !.log = <<LogEntry(alert, t, TRUE, FALSE, FALSE, FALSE, {}, TRUE)>> \o @]
        ELSE LET out == send_alert(sent, reqs, alert, t, items[i].webhookOk)
                 rest == process_alerts_loop(items, i + 1,
                            [recent EXCEPT ![key] = {t}], out.sent, out.requests, t)
             IN  [rest EXCEPT !.log =
                    <<LogEntry(alert, t, TRUE, out.posted, out.ok, TRUE, {t}, TRUE)>> \o @]

NotifyInit ==
    /\ now = 0
    /\ sent_alerts = [k \in AlertKeys |-> {}]
    /\ requests = << >>
    /\ recent_alerts = [k \in AlertKeys |-> {}]
    /\ lastSend = [op |-> "none", alert |-> Alert("", "", 0), time |-> 0,
                   before |-> sent_alerts, reqsBefore |-> << >>,
                   ok |-> FALSE, posted |-> FALSE]
    /\ alertLog = << >>

\* Time passes: by the filter's cooldown, or a minute more.
Tick ==
    /\ \E d \in {CooldownMinutes, CooldownMinutes + 1} :
          /\ now + d <= MaxTime
          /\ now' = now + d
    /\ UNCHANGED <<sent_alerts, requests, recent_alerts, lastSend, alertLog>>

\* A direct call of DuplicateFilter.should_send_alert.
ShouldSendAlert ==
    /\ \E alert \in Alerts :
         LET out == should_send_alert(sent_alerts, alert, now) IN
         /\ sent_alerts' = out.sent
         /\ lastSend' = [op |-> "should_send_alert", alert |-> alert, time |-> now,
                         before |-> sent_alerts, reqsBefore |-> requests,
                         ok |-> out.ok, posted |-> FALSE]
    /\ UNCHANGED <<now, requests, recent_alerts, alertLog>>

ClientCall(op, alert, out) ==
    /\ sent_alerts' = out.sent
    /\ requests' = out.requests
    /\ lastSend' = [op |-> op, alert |-> alert, time |-> now,
                    before |-> sent_alerts, reqsBefore |-> requests,
                    ok |-> out.ok, posted |-> out.posted]
    /\ UNCHANGED <<now, recent_alerts, alertLog>>

SendAlert ==
    \E alert \in Alerts, webhookOk \in BOOLEAN :
        ClientCall("send_alert", alert, send_alert(sent_alerts, requests, alert, now, webhookOk))

SendStatusReport ==
    \E webhookOk \in BOOLEAN :
        ClientCall("send_status_report", Alert("", "", 0),
                   send_status_report(sent_alerts, requests, now, webhookOk))

\* DiscordHandler.test_connection: _send_webhook directly, the rate limiter
\* neither asked nor told.
test_connection(sent, reqs, t, webhookOk) == Sent(webhookOk, TRUE, sent, reqs)

TestConnection ==
    \E webhookOk \in BOOLEAN :
        ClientCall("test_connection", Alert("", "", 0),
                   test_connection(sent_alerts, requests, now, webhookOk))

\* AlertEngine.process_alerts on one list of alerts.
EngineAlerts == {Alert("AAPL", "price_upper", 100), Alert("AAPL", "price_upper", 200)}
AlertItems == [alert : EngineAlerts, webhookOk : BOOLEAN, raises : BOOLEAN]
ProcessAlerts ==
    /\ \E n \in 1..MaxAlertBatch : \E items \in [1..n -> AlertItems] :
         LET run == process_alerts_loop(items, 1, recent_alerts, sent_alerts, requests, now) IN
         /\ Len(alertLog) + n <= MaxLog
         /\ \A i \in 1..n : items[i].raises => items[i].webhookOk
         /\ recent_alerts' = cleanup_old_records(run.recent, now)
         /\ sent_alerts' = run.sent
         /\ requests' = run.requests
         /\ alertLog' = alertLog \o run.log
    /\ UNCHANGED <<now, lastSend>>

\* ------------------------------------------------------------------------
\* Per-user rate limiter (security/rate_limiter.py)
\* ------------------------------------------------------------------------
MaxRequestsPerMinute == 10
MaxRequestsPerHour == 100
BlockDurationMinutes == 30
SuspiciousThreshold == 20
MinutesPerHour == 60

Users == {"user1"}

Checked(allowed, msg, remaining, reqs, blocked) ==
    [allowed |-> allowed, msg |-> msg, remaining |-> remaining,
     requests |-> reqs, blocked |-> blocked]

check_rate_limit_instant(reqs, blocked, user, t) ==
    LET stillBlocked == \E until \in blocked[user] : t < until
        unblocked == [blocked EXCEPT ![user] = {}]
        kept == SelectSeq(reqs[user], LAMBDA r : r > t - MinutesPerHour * TicksPerMinute)
        pruned == [reqs EXCEPT ![user] = kept]
        requests_last_minute == Len(SelectSeq(kept, LAMBDA r : r = t))
        requests_last_hour == Len(kept)
    IN  IF stillBlocked
        THEN Checked(FALSE, "blocked", {until - t : until \in blocked[user]}, reqs, blocked)
        ELSE IF requests_last_minute >= SuspiciousThreshold
        THEN Checked(FALSE, "suspicious", {}, pruned,
                     [blocked EXCEPT ![user] = {t + BlockDurationMinutes * TicksPerMinute}])
        ELSE IF requests_last_minute >= MaxRequestsPerMinute
        THEN Checked(FALSE, "minute_limit", {}, pruned, unblocked)
        ELSE IF requests_last_hour >= MaxRequestsPerHour
        THEN Checked(FALSE, "hour_limit", {}, pruned, unblocked)
        ELSE Checked(TRUE, "", {}, [reqs EXCEPT ![user] = Append(kept, t)], unblocked)

\* check_rate_limit(user_id) at time t, on the two dictionaries.
check_rate_limit(reqs, blocked, user, t) ==
    LET stillBlocked == \E until \in blocked[user] : t < until
        unblocked == [blocked EXCEPT ![user] = {}]
        kept == SelectSeq(reqs[user], LAMBDA r : r > t - MinutesPerHour * TicksPerMinute)
        pruned == [reqs EXCEPT ![user] = kept]
        requests_last_minute == Len(SelectSeq(kept, LAMBDA r : r > t - TicksPerMinute))
        requests_last_hour == Len(kept)
    IN  IF stillBlocked
        THEN Checked(FALSE, "blocked", {until - t : until \in blocked[user]}, reqs, blocked)
        ELSE IF requests_last_minute >= SuspiciousThreshold
        THEN Checked(FALSE, "suspicious", {}, pruned,
                     [blocked EXCEPT ![user] = {t + BlockDurationMinutes * TicksPerMinute}])
        ELSE IF requests_last_minute >= MaxRequestsPerMinute
        THEN Checked(FALSE, "minute_limit", {}, pruned, unblocked)
        ELSE IF requests_last_hour >= MaxRequestsPerHour
        THEN Checked(FALSE, "hour_limit", {}, pruned, unblocked)
        ELSE Checked(TRUE, "", {}, [reqs EXCEPT ![user] = Append(kept, t)], unblocked)

SecurityInit ==
    /\ secNow = 0
    /\ secTicks = 0
    /\ user_requests = [u \in Users |-> << >>]
    /\ blocked_users = [u \in Users |-> {}]
    /\ recentCalls = [u \in Users |-> << >>]
    /\ lastCheck = [user |-> "", time |-> 0, allowed |-> FALSE, msg |-> "none",
                    remaining |-> {}]
    /\ admittedLog = [u \in Users |-> << >>]
    /\ secCalls = 0

\* A limiter that has been in use: for each of the last AgedMinutes
\* minutes the user made MaxRequestsPerMinute calls at the start of the
\* minute, all admitted, and none since.
AgedMinutes == MaxRequestsPerHour \div MaxRequestsPerMinute - 1
AgedHistory ==
    [i \in 1..(AgedMinutes * MaxRequestsPerMinute) |->
        ((i - 1) \div MaxRequestsPerMinute) * TicksPerMinute]

SecurityAgedInit ==
    /\ secNow = AgedMinutes * TicksPerMinute
    /\ secTicks = 0
    /\ user_requests = [u \in Users |-> AgedHistory]
    /\ blocked_users = [u \in Users |-> {}]
    /\ recentCalls = [u \in Users |-> << >>]
    /\ lastCheck = [user |-> "", time |-> 0, allowed |-> FALSE, msg |-> "none",
                    remaining |-> {}]
    /\ admittedLog = [u \in Users |-> AgedHistory]
    /\ secCalls = 0

\* Time passes: part of a minute, a minute, or the length of a block.
SecTick ==
    /\ secTicks < MaxSecTicks
    /\ \E d \in {1, TicksPerMinute, BlockDurationMinutes * TicksPerMinute} :
          secNow' = secNow + d
    /\ secTicks' = secTicks + 1
    /\ UNCHANGED <<user_requests, blocked_users, recentCalls, lastCheck, admittedLog,
                   secCalls>>

\* One check_rate_limit call at the current time.
CheckRateLimit_recordall ==
    /\ \E user \in Users :
         LET out == check_rate_limit(user_requests, blocked_users, user, secNow)
             recent == SelectSeq(recentCalls[user], LAMBDA c : c > secNow - TicksPerMinute)
         IN  /\ Len(recent) < MaxCalls
             /\ user_requests' = IF out.allowed THEN out.requests
                                ELSE [out.requests EXCEPT ![user] = Append(@, secNow)]
             /\ blocked_users' = out.blocked
             /\ recentCalls' = [recentCalls EXCEPT ![user] = Append(recent, secNow)]
             /\ lastCheck' = [user |-> user, time |-> secNow, allowed |-> out.allowed,
                              msg |-> out.msg, remaining |-> out.remaining]
             /\ admittedLog' = [admittedLog EXCEPT ![user] =
                                    IF out.allowed THEN Append(@, secNow) ELSE @]
    /\ secCalls' = secCalls + 1
    /\ UNCHANGED <<secNow, secTicks>>

CheckRateLimit ==
    /\ \E user \in Users :
         LET out == check_rate_limit(user_requests, blocked_users, user, secNow)
             recent == SelectSeq(recentCalls[user], LAMBDA c : c > secNow - TicksPerMinute)
         IN  /\ Len(recent) < MaxCalls
             /\ user_requests' = out.requests
             /\ blocked_users' = out.blocked
             /\ recentCalls' = [recentCalls EXCEPT ![user] = Append(recent, secNow)]
             /\ lastCheck' = [user |-> user, time |-> secNow, allowed |-> out.allowed,
                              msg |-> out.msg, remaining |-> out.remaining]
             /\ admittedLog' = [admittedLog EXCEPT ![user] =
                                    IF out.allowed THEN Append(@, secNow) ELSE @]
    /\ secCalls' = secCalls + 1
    /\ UNCHANGED <<secNow, secTicks>>

\* ------------------------------------------------------------------------
\* Legacy command processor (handlers/command_processor.py)
\* ------------------------------------------------------------------------

\* A message is its whitespace-separated words.  A word carries its text,
\* the character class that decides which patterns it can match, its value
\* when it is read as a number, and whether it is longer than 10 characters.
\*   bang     starts with '!'
\*   alnum    letters and digits
\*   digits   digits only
\*   decimal  digits and one '.'
\*   dotted   digits and several '.' (Decimal() raises InvalidOperation)
\*   period   digits and one of h d w m y
\*   ident    letters, digits and '_'
\*   text     anything else
Word(s, cls, val, long) == [s |-> s, cls |-> cls, val |-> val, long |-> long]

\* The word classes each piece of a pattern accepts, and the ones
\* Decimal() and int() can read.
WordClasses ==
    [symbol |-> {"alnum", "digits", "period"},           \* [A-Z0-9]+, case ignored
     digits |-> {"digits"},                              \* \d+
     number |-> {"digits", "decimal", "dotted"},         \* [0-9.]+
     period |-> {"period"},                              \* \d+[hdwmy]
     ident  |-> {"alnum", "digits", "period", "ident"},  \* \w+
     readable |-> {"digits", "decimal"}]

Messages ==
    LET W(s) == Word(s, "alnum", 0, FALSE)
        N(s, val) == Word(s, "digits", val, FALSE)
        Bang(s) == Word(s, "bang", 0, FALSE)
    IN
    { <<Bang("!add"), W("AAPL")>>,
      <<Bang("!add"), W("AAPL"), Word("Apple Inc.", "text", 0, FALSE)>>,
      <<Bang("!add"), Word("ABCDEFGHIJK", "alnum", 0, TRUE)>>,
      <<Bang("!add")>>,
      <<Bang("!remove"), W("AAPL")>>,
      <<Bang("!list")>>, <<Bang("!list"), N("5", 5)>>, <<Bang("!list"), N("100", 100)>>,
      <<Bang("!alert"), W("AAPL"), N("100", 100)>>,
      <<Bang("!alert"), W("AAPL"), N("100", 100), N("50", 50)>>,
      <<Bang("!alert"), W("AAPL"), N("50", 50), N("100", 100)>>,
      <<Bang("!alert"), W("AAPL"), N("0", 0)>>,
      <<Bang("!alert"), W("AAPL"), Word("1.2.3", "dotted", 0, FALSE)>>,
      <<Bang("!chart"), W("AAPL")>>,
      <<Bang("!chart"), W("AAPL"), Word("5d", "period", 0, FALSE)>>,
      <<Bang("!stats"), W("AAPL")>>,
      <<Bang("!portfolio"), W("add"), W("AAPL"), N("10", 10), N("150", 150)>>,
      <<Bang("!portfolio"), W("add"), W("AAPL"), N("0", 0), N("150", 150)>>,
      <<Bang("!portfolio"), W("remove"), W("AAPL")>>,
      <<Bang("!portfolio"), W("list")>>,
      <<Bang("!portfolio"), W("pnl")>>,
      <<Bang("!help")>>, <<Bang("!help"), W("add")>>, <<Bang("!help"), W("foo")>>,
      <<Bang("!help"), Word("portfolio_add", "ident", 0, FALSE)>>,
      <<Bang("!foo")>>,
      <<Word("Hello", "text", 0, FALSE), Word("world", "text", 0, FALSE)>>,
      << >> }

\* COMMAND_PATTERNS, in the order of the dictionary.
PatternOrder == <<"add", "remove", "list", "alert", "chart", "stats", "portfolio_add",
                  "portfolio_remove", "portfolio_list", "portfolio_pnl", "help">>
PatternNames == {PatternOrder[i] : i \in DOMAIN PatternOrder}

\* re.match(COMMAND_PATTERNS[type], message)
Matches(type, m) ==
    LET n == Len(m)
        first(s) == n >= 1 /\ m[1].cls = "bang" /\ m[1].s = s
        sub(s) == first("!portfolio") /\ n >= 2 /\ m[2].s = s
    IN  CASE type = "add" -> first("!add") /\ n >= 2 /\ m[2].cls \in WordClasses.symbol
          [] type = "remove" -> first("!remove") /\ n = 2 /\ m[2].cls \in WordClasses.symbol
          [] type = "list" -> first("!list") /\ (n = 1 \/ (n = 2 /\ m[2].cls \in WordClasses.digits))
          [] type = "alert" ->
                /\ first("!alert") /\ n \in {3, 4}
                /\ m[2].cls \in WordClasses.symbol /\ m[3].cls \in WordClasses.number
                /\ (n = 4 => m[4].cls \in WordClasses.number)
          [] type = "chart" ->
                first("!chart") /\ n \in {2, 3} /\ m[2].cls \in WordClasses.symbol /\ (n = 3 => m[3].cls \in WordClasses.period)
          [] type = "stats" -> first("!stats") /\ n = 2 /\ m[2].cls \in WordClasses.symbol
          [] type = "portfolio_add" ->
                /\ sub("add") /\ n = 5
                /\ m[3].cls \in WordClasses.symbol /\ m[4].cls \in WordClasses.digits /\ m[5].cls \in WordClasses.number
          [] type = "portfolio_remove" -> sub("remove") /\ n = 3 /\ m[3].cls \in WordClasses.symbol
          [] type = "portfolio_list" -> sub("list") /\ n = 2
          [] type = "portfolio_pnl" -> sub("pnl") /\ n = 2
          [] type = "help" -> first("!help") /\ (n = 1 \/ (n = 2 /\ m[2].cls \in WordClasses.ident))

\* _extract_parameters: the parameters as (name, word) pairs, or a
\* CommandParseError.
extract_parameters(type, m) ==
    LET Extracted(ok, params) == [ok |-> ok, params |-> params] IN
    CASE type = "add" ->
            Extracted(TRUE, {<<"symbol", m[2]>>}
                            \cup (IF Len(m) >= 3 THEN {<<"name", m[3]>>} ELSE {}))
      [] type \in {"remove", "stats"} -> Extracted(TRUE, {<<"symbol", m[2]>>})
      [] type = "list" ->
            IF Len(m) = 1 THEN Extracted(TRUE, {<<"limit", Word("10", "digits", 10, FALSE)>>})
            ELSE IF m[2].val <= 0 \/ m[2].val > 50 THEN Extracted(FALSE, {})
            ELSE Extracted(TRUE, {<<"limit", m[2]>>})
      [] type = "alert" ->
            IF m[3].cls \notin WordClasses.readable \/ m[3].val <= 0 THEN Extracted(FALSE, {})
            ELSE IF Len(m) = 3
            THEN Extracted(TRUE, {<<"symbol", m[2]>>, <<"upper_limit", m[3]>>})
            ELSE IF m[4].cls \notin WordClasses.readable \/ m[4].val <= 0 \/ m[4].val >= m[3].val
            THEN Extracted(FALSE, {})
            ELSE Extracted(TRUE, {<<"symbol", m[2]>>, <<"upper_limit", m[3]>>,
                                  <<"lower_limit", m[4]>>})
      [] type = "chart" ->
            Extracted(TRUE, {<<"symbol", m[2]>>,
                             <<"period", IF Len(m) = 3 THEN m[3] ELSE Word("1d", "period", 0, FALSE)>>})
      [] type = "portfolio_add" ->
            IF m[5].cls \notin WordClasses.readable \/ m[4].val <= 0 \/ m[5].val <= 0 THEN Extracted(FALSE, {})
            ELSE Extracted(TRUE, {<<"symbol", m[3]>>, <<"quantity", m[4]>>,
                                  <<"purchase_price", m[5]>>})
      [] type = "portfolio_remove" -> Extracted(TRUE, {<<"symbol", m[3]>>})
      [] type \in {"portfolio_list", "portfolio_pnl"} -> Extracted(TRUE, {})
      [] type = "help" ->
            IF Len(m) = 1 THEN Extracted(TRUE, {})
            ELSE IF m[2].s \notin PatternNames THEN Extracted(FALSE, {})
            ELSE Extracted(TRUE, {<<"command", m[2]>>})

\* The Command record and its command_type validator.
validate_command_type(v) ==
    v \in {"add", "remove", "list", "alert", "chart", "stats", "portfolio", "help", "error"}

Command(type, user, channel, params, status, result, error) ==
    [command_type |-> type, user_id |-> user, channel_id |-> channel,
     parameters |-> params, status |-> status, result |-> result,
     error_message |-> error]

\* The first pattern of the dictionary that matches: {type}, or {}.
FirstMatch(m) ==
    {PatternOrder[i] : i \in {k \in DOMAIN PatternOrder :
        /\ Matches(PatternOrder[k], m)
        /\ \A j \in 1..(k - 1) : ~Matches(PatternOrder[j], m)}}

\* CommandParser.parse_command: {the pending Command}, or {} for a
\* CommandParseError.  Every exception in it, the Command validator's
\* included, leaves as a CommandParseError.
parse_command(m, user, channel) ==
    IF m = << >> \/ m[1].cls # "bang" THEN {}
    ELSE IF FirstMatch(m) = {} THEN {}
    ELSE LET type == CHOOSE t \in FirstMatch(m) : TRUE
             ex == extract_parameters(type, m)
         IN  IF ~ex.ok THEN {}
             ELSE IF ~validate_command_type(type) THEN {}
             ELSE {Command(type, user, channel, ex.params, "pending", {}, {})}

check_permission_adminfirst(command, admins, channels) ==
    IF command.command_type \in {"add", "remove", "alert"} /\ admins # {} /\ command.user_id \notin admins
    THEN "admin_required"
    ELSE IF channels # {} /\ command.channel_id \notin channels
    THEN "channel_not_allowed"
    ELSE "ok"

\* CommandPermissionManager.check_permission: "ok", or the
\* CommandPermissionError it raises.
check_permission(command, admins, channels) ==
    IF channels # {} /\ command.channel_id \notin channels
    THEN "channel_not_allowed"
    ELSE IF command.command_type \in {"add", "remove", "alert"} /\ admins # {} /\ command.user_id \notin admins
    THEN "admin_required"
    ELSE "ok"

\* CommandParser.validate_symbol: ^[A-Z0-9]{1,10}$
validate_symbol(w) == w.cls \in WordClasses.symbol /\ ~w.long

\* The handler of the command's type: its return value, or the exception.
command_handler(command) ==
    IF command.command_type = "add"
         /\ \E p \in command.parameters : p[1] = "symbol" /\ ~validate_symbol(p[2])
    THEN [ok |-> FALSE, text |-> "invalid_symbol"]
    ELSE [ok |-> TRUE, text |-> "done"]

execute_command_stuck(command) ==
    IF command.command_type \in PatternNames /\ command_handler(command).ok
    THEN [command |-> [command EXCEPT !.status = "completed",
                                       !.result = {command_handler(command).text}],
          raised |-> {}, ran |-> TRUE, trace |-> <<"completed">>]
    ELSE [command |-> command, raised |-> {"error"}, ran |-> TRUE, trace |-> << >>]

\* CommandProcessor._execute_command: the command after it, the exception
\* it re-raises, whether a handler ran, and the statuses it assigned.
execute_command(command) ==
    IF command.command_type \notin PatternNames      \* self.command_handlers
    THEN [command |-> [command EXCEPT !.status = "failed",
                                       !.error_message = {"unsupported_command"}],
          raised |-> {"unsupported_command"}, ran |-> FALSE, trace |-> <<"failed">>]
    ELSE LET h == command_handler(command) IN
         IF h.ok
         THEN [command |-> [command EXCEPT !.status = "completed", !.result = {h.text}],
               raised |-> {}, ran |-> TRUE, trace |-> <<"completed">>]
         ELSE [command |-> [command EXCEPT !.status = "failed", !.error_message = {h.text}],
               raised |-> {h.text}, ran |-> TRUE, trace |-> <<"failed">>]

\* What process_message did: the Command the parser made, the answer of
\* the permission check ("none" when it was not reached), whether a handler
\* ran, the statuses the parsed Command went through and where it ended,
\* and the return value ({} for None).
Processed(parsed, permission, ran, trace, final, returned) ==
    [parsed |-> parsed, permission |-> permission, ran |-> ran, trace |-> trace,
     final |-> final, returned |-> returned]

ErrorCommand(user, channel, text) == Command("error", user, channel, {}, "failed", {}, {text})

process_message_silent(m, user, channel, admins, channels) ==
    LET parsed == parse_command(m, user, channel) IN
    IF parsed = {} THEN Processed({}, "none", FALSE, << >>, {}, {})
    ELSE LET command == CHOOSE c \in parsed : TRUE
             perm == check_permission(command, admins, channels)
             run == execute_command([command EXCEPT !.status = "processing"])
         IN  IF perm # "ok"
             THEN Processed(parsed, perm, FALSE, <<"pending">>, parsed, {})
             ELSE Processed(parsed, perm, run.ran, <<"pending", "processing">> \o run.trace,
                            {run.command},
                            IF run.raised = {} THEN {run.command} ELSE {})

\* CommandProcessor.process_message
process_message(m, user, channel, admins, channels) ==
    LET parsed == parse_command(m, user, channel) IN
    IF parsed = {} THEN Processed({}, "none", FALSE, << >>, {}, {})
    ELSE LET command == CHOOSE c \in parsed : TRUE
             perm == check_permission(command, admins, channels)
             run == execute_command([command EXCEPT !.status = "processing"])
         IN  IF perm # "ok"
             THEN Processed(parsed, perm, FALSE, <<"pending">>, parsed,
                            {ErrorCommand(user, channel, perm)})
             ELSE Processed(parsed, perm, run.ran, <<"pending", "processing">> \o run.trace,
                            {run.command},
                            IF run.raised = {} THEN {run.command}
                            ELSE {ErrorCommand(user, channel,
                                               CHOOSE e \in run.raised : TRUE)})

\* CommandProcessor(admin_users, allowed_channels)
CommandInit ==
    /\ admin_users \in {{}, {"admin1"}}
    /\ allowed_channels \in {{}, {"channel1"}}
    /\ cmdLast = [message |-> << >>, user |-> "", channel |-> "", called |-> FALSE,
                  did |-> Processed({}, "none", FALSE, << >>, {}, {})]

ProcessMessage ==
    /\ \E m \in Messages, user \in {"admin1", "user2"}, channel \in {"channel1", "channel2"} :
         cmdLast' = [message |-> m, user |-> user, channel |-> channel, called |-> TRUE,
                     did |-> process_message(m, user, channel, admin_users, allowed_channels)]
    /\ UNCHANGED <<admin_users, allowed_channels>>

\* ------------------------------------------------------------------------
\* Market data provider (services/data_provider.py)
\* ------------------------------------------------------------------------

\* A symbol argument: its text stripped and upper-cased, whether a
\* character other than a letter, a digit, '.' or '-' is in it, and its
\* length.
ProviderSymbols ==
    {[text |-> "AAPL", badchar |-> FALSE, len |-> 4],
     [text |-> "7203", badchar |-> FALSE, len |-> 4],
     [text |-> "BRK.B", badchar |-> FALSE, len |-> 5],
     [text |-> "", badchar |-> FALSE, len |-> 0],
     [text |-> "AA PL", badchar |-> TRUE, len |-> 5],
     [text |-> "ABCDEFGHIJK", badchar |-> FALSE, len |-> 11]}

\* StockDataProvider.validate_symbol
provider_validate_symbol(symbol) ==
    symbol.len # 0 /\ ~symbol.badchar /\ symbol.len >= 1 /\ symbol.len <= 10

\* What a source does when it is asked: a price, or an exception.
SourceOutcomes == {"price", "no_data", "bad_data"}

Fetched(raised, price, primaryCalls, secondaryCalls) ==
    [raised |-> raised, price |-> price, primaryCalls |-> primaryCalls,
     secondaryCalls |-> secondaryCalls]

get_current_price_eager(symbol, key, primary, secondary) ==
    IF ~provider_validate_symbol(symbol) THEN Fetched({"invalid_symbol"}, {}, 0, 0)
    ELSE IF primary = "price" THEN Fetched({}, {<<"yahoo", symbol.text>>}, 1, 1)
    ELSE IF secondary = "price" THEN Fetched({}, {<<"alpha_vantage", symbol.text>>}, 1, 1)
    ELSE Fetched({"all_sources_failed"}, {}, 1, 1)

\* StockDataProvider.get_current_price.  An empty key is as good as none.
get_current_price(symbol, key, primary, secondary) ==
    IF ~provider_validate_symbol(symbol) THEN Fetched({"invalid_symbol"}, {}, 0, 0)
    ELSE IF primary = "price" THEN Fetched({}, {<<"yahoo", symbol.text>>}, 1, 0)
    ELSE IF key \notin {{}, {""}}
    THEN IF secondary = "price"
         THEN Fetched({}, {<<"alpha_vantage", symbol.text>>}, 1, 1)
         ELSE Fetched({"all_sources_failed"}, {}, 1, 1)
    ELSE Fetched({"primary_failed"}, {}, 1, 0)

\* StockDataProvider(alpha_vantage_api_key)
ProviderInit ==
    /\ alpha_vantage_api_key \in {{}, {""}, {"KEY"}}
    /\ provLast = [called |-> FALSE, symbol |-> [text |-> "", badchar |-> FALSE, len |-> 0],
                   primary |-> "price", secondary |-> "price",
                   did |-> Fetched({}, {}, 0, 0)]

GetCurrentPrice ==
    /\ \E symbol \in ProviderSymbols, primary \in SourceOutcomes, secondary \in SourceOutcomes :
         provLast' = [called |-> TRUE, symbol |-> symbol, primary |-> primary,
                      secondary |-> secondary,
                      did |-> get_current_price(symbol, alpha_vantage_api_key,
                                                primary, secondary)]
    /\ UNCHANGED alpha_vantage_api_key

\* ------------------------------------------------------------------------
\* Portfolio service (services/portfolio_service.py, models/stock.py)
\* ------------------------------------------------------------------------
MaxPortfolios == 2
MaxHoldings == 2
MaxSamples == 3       \* update_volume_history calls on top of the initial history
MaxUsers == 3         \* target users of one P&L sweep

\* str.upper() on the symbols that are used here
Upper(symbol) == IF symbol = "aapl" THEN "AAPL" ELSE symbol

\* Decimal a / b * 100 for b # 0, as the fraction <<numerator, denominator>>
\* in lowest terms with a positive denominator.
Percent(a, b) ==
    LET RECURSIVE Gcd(_, _)
        Gcd(x, y) == IF y = 0 THEN x ELSE Gcd(y, x % y)
        Abs(x) == IF x < 0 THEN -x ELSE x
        g == Gcd(Abs(100 * a), Abs(b))
        s == IF b < 0 THEN -1 ELSE 1
    IN  <<(s * 100 * a) \div g, (s * b) \div g>>

\* sum(...) over a sequence of numbers
Sum(seq) ==
    LET RECURSIVE Upto(_)
        Upto(n) == IF n = 0 THEN 0 ELSE Upto(n - 1) + seq[n]
    IN  Upto(Len(seq))

\* PortfolioService.create_portfolio: a fresh id, an active portfolio
create_portfolio(ps, user_id) ==
    Append(ps, [portfolio_id |-> Len(ps) + 1, user_id |-> user_id, is_active |-> TRUE])

\* PortfolioService.get_user_portfolios
get_user_portfolios(ps, user_id) ==
    SelectSeq(ps, LAMBDA p : p.user_id = user_id /\ p.is_active)

\* PortfolioService.add_holding: the new list of holdings, or nothing when
\* the portfolio is unknown or PortfolioHolding's validators reject a field.
add_holding(ps, hs, portfolio_id, symbol, quantity, purchase_price) ==
    IF portfolio_id \notin 1..Len(ps) \/ quantity <= 0 \/ purchase_price <= 0
    THEN {}
    ELSE {Append(hs, [holding_id |-> Len(hs) + 1, portfolio_id |-> portfolio_id,
                      symbol |-> Upper(symbol), quantity |-> quantity,
                      purchase_price |-> purchase_price, is_active |-> TRUE])}

\* PortfolioService.remove_holding
remove_holding(hs, holding_id) ==
    IF holding_id \in 1..Len(hs) THEN [hs EXCEPT ![holding_id].is_active = FALSE] ELSE hs

\* PortfolioService.get_portfolio_holdings
get_portfolio_holdings(hs, portfolio_id) ==
    SelectSeq(hs, LAMBDA h : h.portfolio_id = portfolio_id /\ h.is_active)

\* PortfolioService.update_holding: plain attribute assignment, which the
\* model's validators do not see.
update_holding(hs, holding_id, quantity, purchase_price) ==
    IF holding_id \in 1..Len(hs) /\ hs[holding_id].is_active
    THEN [hs EXCEPT ![holding_id] =
            [@ EXCEPT !.quantity = IF quantity = {} THEN @ ELSE CHOOSE q \in quantity : TRUE,
                      !.purchase_price = IF purchase_price = {} THEN @
                                         ELSE CHOOSE q \in purchase_price : TRUE]]
    ELSE hs

\* ProfitLossCalculation.calculate: the line, or nothing when the division
\* by purchase_value raises.
calculate(holding, current_price) ==
    LET purchase_value == holding.purchase_price * holding.quantity
        current_value == current_price * holding.quantity
        unrealized_pnl == current_value - purchase_value
    IN  IF purchase_value = 0 THEN {}
        ELSE {[holding_id |-> holding.holding_id, symbol |-> holding.symbol,
               quantity |-> holding.quantity, purchase_price |-> holding.purchase_price,
               current_price |-> current_price, purchase_value |-> purchase_value,
               current_value |-> current_value, unrealized_pnl |-> unrealized_pnl,
               unrealized_pnl_percent |-> Percent(unrealized_pnl, purchase_value)]}

\* PortfolioProfitLossReport.create_report
create_report(portfolio, holdings_pnl) ==
    LET total_purchase_value ==
            Sum([i \in 1..Len(holdings_pnl) |-> holdings_pnl[i].purchase_value])
        total_current_value ==
            Sum([i \in 1..Len(holdings_pnl) |-> holdings_pnl[i].current_value])
        total_unrealized_pnl == total_current_value - total_purchase_value
    IN  [portfolio_id |-> portfolio.portfolio_id, user_id |-> portfolio.user_id,
         holdings |-> holdings_pnl,
         total_purchase_value |-> total_purchase_value,
         total_current_value |-> total_current_value,
         total_unrealized_pnl |-> total_unrealized_pnl,
         total_unrealized_pnl_percent |->
             IF total_purchase_value > 0
             THEN Percent(total_unrealized_pnl, total_purchase_value)
             ELSE <<0, 1>>]

\* PortfolioService.calculate_portfolio_pnl.  fetch[i] is what
\* get_current_price does for the i-th active holding: {} when it raises,
\* {price} otherwise.  An exception of the fallback calculation leaves the
\* method.
calculate_portfolio_pnl(ps, hs, portfolio_id, fetch) ==
    IF portfolio_id \notin 1..Len(ps)
    THEN [raised |-> FALSE, report |-> {}]
    ELSE LET active == get_portfolio_holdings(hs, portfolio_id)
             tried(i) == IF fetch[i] = {} THEN {}
                         ELSE calculate(active[i], CHOOSE c \in fetch[i] : TRUE)
             pnl(i) == IF tried(i) # {} THEN tried(i)
                       ELSE calculate(active[i], active[i].purchase_price)
         IN  IF \E i \in 1..Len(active) : pnl(i) = {}
             THEN [raised |-> TRUE, report |-> {}]
             ELSE [raised |-> FALSE,
                   report |-> {create_report(ps[portfolio_id],
                                  [i \in 1..Len(active) |-> CHOOSE l \in pnl(i) : TRUE])}]

Added(ps, hs, ok, created, portfolio_id) ==
    [portfolios |-> ps, holdings |-> hs, ok |-> ok, created |-> created,
     portfolio_id |-> portfolio_id]

handle_portfolio_add_command_fresh(ps, hs, user_id, symbol, quantity, purchase_price) ==
    LET created == create_portfolio(ps, user_id)
        added == add_holding(created, hs, Len(created), symbol, quantity, purchase_price)
    IN  Added(created, IF added = {} THEN hs ELSE CHOOSE a \in added : TRUE,
              added # {}, TRUE, Len(created))

\* PortfolioCommandHandler.handle_portfolio_add_command
handle_portfolio_add_command(ps, hs, user_id, symbol, quantity, purchase_price) ==
    LET mine == get_user_portfolios(ps, user_id)
        created == IF mine = <<>> THEN create_portfolio(ps, user_id) ELSE ps
        portfolio_id == IF mine = <<>> THEN Len(created) ELSE mine[1].portfolio_id
        added == add_holding(created, hs, portfolio_id, symbol, quantity, purchase_price)
    IN  Added(created, IF added = {} THEN hs ELSE CHOOSE a \in added : TRUE,
              added # {}, mine = <<>>, portfolio_id)

\* PortfolioCommandHandler.handle_portfolio_remove_command: the first
\* matching holding of the first portfolio that has one.
handle_portfolio_remove_command(ps, hs, user_id, symbol) ==
    LET mine == get_user_portfolios(ps, user_id)
        hit(p) == SelectSeq(get_portfolio_holdings(hs, p.portfolio_id),
                            LAMBDA h : Upper(h.symbol) = Upper(symbol))
        found == SelectSeq(mine, LAMBDA p : hit(p) # <<>>)
    IN  IF mine = <<>> THEN [holdings |-> hs, result |-> "no_portfolio"]
        ELSE IF found = <<>> THEN [holdings |-> hs, result |-> "not_found"]
        ELSE [holdings |-> remove_holding(hs, hit(found[1])[1].holding_id),
              result |-> "removed"]

PortfolioOp(op, user_id, symbol, portfolio_id, ok, created, hadNone, fetch, did) ==
    [op |-> op, user_id |-> user_id, symbol |-> symbol, portfolio_id |-> portfolio_id,
     ok |-> ok, created |-> created, hadNone |-> hadNone, fetch |-> fetch, did |-> did]

NoReport == [raised |-> FALSE, report |-> {}]

\* PortfolioService.__init__
PortfolioInit ==
    /\ portfolios = <<>>
    /\ holdings = <<>>
    /\ addCreated = {}
    /\ pfLast = PortfolioOp("none", "", "", 0, FALSE, FALSE, FALSE, <<>>, NoReport)

CreatePortfolio ==
    /\ Len(portfolios) < MaxPortfolios
    /\ \E user_id \in {"user1", "user2"} :
         /\ portfolios' = create_portfolio(portfolios, user_id)
         /\ pfLast' = PortfolioOp("create", user_id, "", Len(portfolios) + 1, TRUE,
                                  FALSE, FALSE, <<>>, NoReport)
    /\ UNCHANGED <<holdings, addCreated>>

AddHolding ==
    /\ Len(holdings) < MaxHoldings
    /\ \E portfolio_id \in 1..MaxPortfolios, symbol \in {"7203", "AAPL"},
          quantity \in {0, 2}, purchase_price \in {2} :
         LET added == add_holding(portfolios, holdings, portfolio_id, symbol,
                                  quantity, purchase_price)
         IN  /\ holdings' = IF added = {} THEN holdings ELSE CHOOSE a \in added : TRUE
             /\ pfLast' = PortfolioOp("add", "", symbol, portfolio_id, added # {},
                                      FALSE, FALSE, <<>>, NoReport)
    /\ UNCHANGED <<portfolios, addCreated>>

RemoveHolding ==
    /\ \E holding_id \in 1..MaxHoldings :
         /\ holdings' = remove_holding(holdings, holding_id)
         /\ pfLast' = PortfolioOp("remove", "", "", 0, holding_id \in 1..Len(holdings),
                                  FALSE, FALSE, <<>>, NoReport)
    /\ UNCHANGED <<portfolios, addCreated>>

UpdateHolding ==
    /\ \E holding_id \in 1..MaxHoldings, quantity \in {{}, {0}, {-2}},
          purchase_price \in {{}, {2}} :
         /\ holdings' = update_holding(holdings, holding_id, quantity, purchase_price)
         /\ pfLast' = PortfolioOp("update", "", "", 0,
                                  holding_id \in 1..Len(holdings)
                                      /\ holdings[holding_id].is_active,
                                  FALSE, FALSE, <<>>, NoReport)
    /\ UNCHANGED <<portfolios, addCreated>>

CalculatePortfolioPnl ==
    /\ \E portfolio_id \in 1..MaxPortfolios :
         \E fetch \in [1..Len(get_portfolio_holdings(holdings, portfolio_id))
                          -> {{}, {3}}] :
            pfLast' = PortfolioOp("pnl", "", "", portfolio_id, TRUE, FALSE, FALSE, fetch,
                                  calculate_portfolio_pnl(portfolios, holdings,
                                                          portfolio_id, fetch))
    /\ UNCHANGED <<portfolios, holdings, addCreated>>

HandlePortfolioAdd ==
    /\ \E user_id \in {"user1", "user2"}, symbol \in {"7203", "aapl"},
          quantity \in {0, 2}, purchase_price \in {2} :
         LET did == handle_portfolio_add_command(portfolios, holdings, user_id, symbol,
                                                 quantity, purchase_price)
         IN  /\ Len(did.portfolios) <= MaxPortfolios
             /\ Len(did.holdings) <= MaxHoldings
             /\ portfolios' = did.portfolios
             /\ holdings' = did.holdings
             /\ addCreated' = IF did.created THEN addCreated \cup {did.portfolio_id}
                              ELSE addCreated
             /\ pfLast' = PortfolioOp("cmd_add", user_id, symbol, did.portfolio_id, did.ok,
                                      did.created,
                                      get_user_portfolios(portfolios, user_id) = <<>>,
                                      <<>>, NoReport)

HandlePortfolioRemove ==
    /\ \E user_id \in {"user1", "user2"}, symbol \in {"7203", "aapl"} :
         LET did == handle_portfolio_remove_command(portfolios, holdings, user_id, symbol)
         IN  /\ holdings' = did.holdings
             /\ pfLast' = PortfolioOp("cmd_remove", user_id, symbol, 0,
                                      did.result = "removed", FALSE, FALSE, <<>>, NoReport)
    /\ UNCHANGED <<portfolios, addCreated>>

\* ------------------------------------------------------------------------
\* Function entry point (handlers/main.py)
\* ------------------------------------------------------------------------

\* An event: a JSON object with any of the fields source, httpMethod and
\* requestContext ("" absent, "empty" present with an empty value), or a
\* JSON value that is not an object.
Events ==
    [isdict : {TRUE}, source : {"", "aws.events", "discord.async_command", "other"},
     httpMethod : {"", "empty", "POST"}, requestContext : {"", "empty", "context"}]
    \cup {[isdict |-> FALSE, source |-> "", httpMethod |-> "", requestContext |-> ""]}

\* lambda_handler and the three handlers it runs.  sched is what the
\* scheduled run meets (a missing setting, no target users, an exception
\* of the run), key the state of the configured public key, r the HTTP
\* request, patch the end of the asynchronous handler's PATCH.  A handler's
\* 'except' branch answers 500 with str(e) of the exception it caught.
lambda_handler_asyncfirst(event, sched, key, r, patch) ==
    LET Response(path, statusCode, body) ==
            [path |-> path, statusCode |-> statusCode, body |-> body]
    IN  IF ~event.isdict THEN Response("none", 500, "generic")
        ELSE IF event.source = "aws.events"
        THEN Response("scheduled", IF sched \in {"ok", "no_users"} THEN 200 ELSE 500,
                      IF sched = "ok" THEN "result"
                      ELSE IF sched = "no_users" THEN "message" ELSE "exception_text")
        ELSE IF event.source = "discord.async_command"
        THEN Response("async", IF key = "ok" /\ patch # "raise" THEN 200 ELSE 500,
                      IF key # "ok" THEN "not_configured"
                      ELSE IF patch = "raise" THEN "exception_text" ELSE "message")
        ELSE IF event.httpMethod = "POST" \/ event.requestContext = "context"
        THEN Response("http", handle_interaction(1, r, TRUE).status,
                      handle_interaction(1, r, TRUE).kind)
        ELSE Response("none", 400, "unsupported")

lambda_handler(event, sched, key, r, patch) ==
    LET Response(path, statusCode, body) ==
            [path |-> path, statusCode |-> statusCode, body |-> body]
        handle_scheduled_event ==
            Response("scheduled", IF sched \in {"ok", "no_users"} THEN 200 ELSE 500,
                     IF sched = "ok" THEN "result"
                     ELSE IF sched = "no_users" THEN "message" ELSE "exception_text")
        handle_http_request ==
            IF key = "missing" THEN Response("http", 500, "not_configured")
            ELSE IF key = "malformed" THEN Response("http", 500, "exception_text")
            ELSE Response("http", handle_interaction(1, r, TRUE).status,
                          handle_interaction(1, r, TRUE).kind)
        handle_async ==
            IF key = "missing" THEN Response("async", 500, "not_configured")
            ELSE IF key = "malformed" \/ patch = "raise"
            THEN Response("async", 500, "exception_text")
            ELSE Response("async", 200, "message")
    IN  IF ~event.isdict THEN Response("none", 500, "generic")
        ELSE IF event.source = "aws.events" THEN handle_scheduled_event
        ELSE IF event.httpMethod = "POST" \/ event.requestContext = "context"
        THEN handle_http_request
        ELSE IF event.source = "discord.async_command" THEN handle_async
        ELSE Response("none", 400, "unsupported")

EntryInit ==
    entryLast = [called |-> FALSE,
                 event |-> [isdict |-> FALSE, source |-> "", httpMethod |-> "",
                            requestContext |-> ""],
                 did |-> [path |-> "none", statusCode |-> 0, body |-> ""]]

\* The runtime calls lambda_handler with one event (the function keeps
\* nothing between calls, so one call per behaviour covers them all).
LambdaHandler ==
    /\ ~entryLast.called
    /\ \E event \in Events,
          sched \in {"ok", "no_users", "no_webhook", "no_api_key", "raise"},
          key \in {"ok", "missing", "malformed"},
          r \in {q \in Requests :
                    /\ q.ts = <<Digits>> /\ Len(q.body) = 1
                    /\ ~q.sig.present \/ (q.sig.len128 /\ q.sig.signs = q.ts \o q.body)},
          patch \in PatchResults :
        entryLast' = [called |-> TRUE, event |-> event,
                      did |-> lambda_handler(event, sched, key, r, patch)]

\* ------------------------------------------------------------------------
\* Scheduled P&L sweep (handlers/scheduled_handler.py)
\* ------------------------------------------------------------------------

\* The attributes a DiscordHandler object has that the sweep may ask for.
\* DiscordMessage is a class of the module, not of the handler.
DiscordHandlerAttributes == {"_send_webhook", "send_alert", "send_status_report"}

\* _process_user_pnl_report and _send_pnl_notification for one user who has
\* no portfolio ("no_portfolio"), has reports ("portfolio"), or whose P&L
\* calculation raises ("calc_raises"): did it raise, and how many webhook
\* POSTs were made.  _send_webhook's False only gets logged.
process_user_pnl_report(situation) ==
    IF situation = "calc_raises" THEN [raised |-> TRUE, posts |-> 0]
    ELSE IF situation = "no_portfolio" THEN [raised |-> FALSE, posts |-> 0]
    ELSE IF "DiscordMessage" \notin DiscordHandlerAttributes
    THEN [raised |-> TRUE, posts |-> 0]
    ELSE [raised |-> FALSE, posts |-> 1]

generate_and_send_pnl_reports_lazy(target_users, situations) ==
    LET did == [i \in 1..Len(target_users) |->
                   [user_id |-> target_users[i],
                    raised |-> process_user_pnl_report(situations[i]).raised,
                    posts |-> process_user_pnl_report(situations[i]).posts]]
        failed == SelectSeq(did, LAMBDA d : d.raised)
    IN  [processed_users |-> Len(did) - Len(failed),
         successful_reports |-> Len(did) - Len(failed),
         failed_reports |-> Len(failed),
         errors |-> [i \in 1..Len(failed) |-> failed[i].user_id],
         posts |-> [i \in 1..Len(did) |-> did[i].posts]]

\* ScheduledPnLReportHandler.generate_and_send_pnl_reports: the results,
\* and posts[i], the webhook POSTs made for the i-th target user.
generate_and_send_pnl_reports(target_users, situations) ==
    LET did == [i \in 1..Len(target_users) |->
                   [user_id |-> target_users[i],
                    raised |-> process_user_pnl_report(situations[i]).raised,
                    posts |-> process_user_pnl_report(situations[i]).posts]]
        failed == SelectSeq(did, LAMBDA d : d.raised)
    IN  [processed_users |-> Len(did),
         successful_reports |-> Len(did) - Len(failed),
         failed_reports |-> Len(failed),
         errors |-> [i \in 1..Len(failed) |-> failed[i].user_id],
         posts |-> [i \in 1..Len(did) |-> did[i].posts]]

SweepInit ==
    sweepLast = [called |-> FALSE, target_users |-> << >>, situations |-> << >>,
                 results |-> generate_and_send_pnl_reports(<< >>, << >>)]

\* One scheduled sweep (the handler is built anew for each).
GenerateAndSendPnlReports ==
    /\ ~sweepLast.called
    /\ \E n \in 0..MaxUsers :
         \E target_users \in [1..n -> {"user1", "user2"}],
            situations \in [1..n -> {"no_portfolio", "portfolio", "calc_raises"}] :
            sweepLast' = [called |-> TRUE, target_users |-> target_users,
                          situations |-> situations,
                          results |-> generate_and_send_pnl_reports(target_users,
                                                                    situations)]

\* ------------------------------------------------------------------------
\* Configuration (config.py)
\* ------------------------------------------------------------------------
LruMaxSize == 128

ParameterNames == {"", "discord-public-key", "user-ids"}

\* The arguments of a call as lru_cache sees them: the name, and the
\* default ({} for None, {""} for default="").
ParameterCalls ==
    {<<"", {}>>, <<"discord-public-key", {}>>, <<"user-ids", {}>>, <<"user-ids", {""}>>}

get_parameter_uncached(cache, store, call) ==
    [returned |-> IF call[1] = "" THEN {}
                  ELSE IF store[call[1]] = {} THEN call[2] ELSE store[call[1]],
     cache |-> cache,
     contacted |-> call[1] # ""]

\* Config.get_parameter under functools.lru_cache(maxsize=128): a call
\* whose arguments are cached returns the cached value (and becomes the
\* most recently used entry); any other call runs the body, which asks the
\* store unless the name is empty and returns the default when the store
\* raises, and its return value is cached, evicting the least recently
\* used entry of a full cache.
get_parameter(cache, store, call) ==
    LET hit == SelectSeq(cache, LAMBDA e : e.call = call)
        rest == SelectSeq(cache, LAMBDA e : e.call # call)
        returned == IF call[1] = "" THEN {}
                    ELSE IF store[call[1]] = {} THEN call[2] ELSE store[call[1]]
        room == IF Len(cache) >= LruMaxSize THEN Tail(cache) ELSE cache
    IN  IF hit # << >>
        THEN [returned |-> hit[1].returned, cache |-> Append(rest, hit[1]),
              contacted |-> FALSE]
        ELSE [returned |-> returned,
              cache |-> Append(room, [call |-> call, returned |-> returned]),
              contacted |-> call[1] # ""]

ConfigInit ==
    /\ paramStore = [n \in ParameterNames \ {""} |-> {"v1"}]
    /\ paramCache = << >>
    /\ ssmContacts = [n \in ParameterNames |-> 0]
    /\ firstReturned = [c \in ParameterCalls |-> {}]
    /\ cfgLast = [called |-> FALSE, call |-> <<"", {}>>, returned |-> {},
                  contacted |-> FALSE]

\* Somebody changes or deletes a parameter in the secret store.
PutParameter ==
    /\ \E n \in ParameterNames \ {""}, v \in {{}, {"v1"}} :
         /\ paramStore[n] # v
         /\ paramStore' = [paramStore EXCEPT ![n] = v]
    /\ UNCHANGED <<paramCache, ssmContacts, firstReturned, cfgLast>>

GetParameter ==
    /\ \E call \in ParameterCalls :
         LET did == get_parameter(paramCache, paramStore, call) IN
         /\ paramCache' = did.cache
         /\ ssmContacts' = IF did.contacted
                           THEN [ssmContacts EXCEPT ![call[1]] = @ + 1] ELSE ssmContacts
         /\ firstReturned' = IF firstReturned[call] = {}
                             THEN [firstReturned EXCEPT ![call] = {did.returned}]
                             ELSE firstReturned
         /\ cfgLast' = [called |-> TRUE, call |-> call, returned |-> did.returned,
                         contacted |-> did.contacted]
    /\ UNCHANGED paramStore

\* ------------------------------------------------------------------------
\* Volume history of the alert engine (services/alert_engine.py)
\* ------------------------------------------------------------------------
VolumeWindow == 20

update_volume_history_oldest(history, symbol, volume) ==
    LET appended == Append(history[symbol], volume)
    IN  [history EXCEPT ![symbol] =
            IF Len(appended) > VolumeWindow
            THEN SubSeq(appended, 1, VolumeWindow)
            ELSE appended]

\* AlertEngine.update_volume_history: append, then keep the last 20.
update_volume_history(history, symbol, volume) ==
    LET appended == Append(history[symbol], volume)
    IN  [history EXCEPT ![symbol] =
            IF Len(appended) > VolumeWindow
            THEN SubSeq(appended, Len(appended) - VolumeWindow + 1, Len(appended))
            ELSE appended]

\* AlertEngine.calculate_average_volume
calculate_average_volume(history, symbol) ==
    IF history[symbol] = << >> THEN 0
    ELSE Sum(history[symbol]) \div Len(history[symbol])

\* AlertEngine.__init__
VolumeInit ==
    /\ volume_history = [s \in {"7203", "AAPL"} |-> << >>]
    /\ volumeArrived = volume_history

\* The engine after VolumeWindow - 1 samples for one symbol.
VolumeAgedInit ==
    /\ volume_history = [s \in {"7203", "AAPL"} |->
                           IF s = "7203" THEN [i \in 1..(VolumeWindow - 1) |-> 10 + i]
                           ELSE << >>]
    /\ volumeArrived = volume_history

\* At most MaxSamples calls on top of the initial history.
UpdateVolumeHistory ==
    /\ LET n == Len(volumeArrived["7203"]) + Len(volumeArrived["AAPL"])
       IN  n < MaxSamples \/ (n >= VolumeWindow - 1 /\ n < VolumeWindow - 1 + MaxSamples)
    /\ \E symbol \in {"7203", "AAPL"}, volume \in {0, 1, 4} :
         /\ volume_history' = update_volume_history(volume_history, symbol, volume)
         /\ volumeArrived' = [volumeArrived EXCEPT ![symbol] = Append(@, volume)]

\* ------------------------------------------------------------------------
\* Lightweight interaction handler (handlers/interactions_only.py)
\* ------------------------------------------------------------------------

\* verify_discord_signature with a well-formed public key: length check,
\* hex conversion, Ed25519 over timestamp + body; every exception is False.
verify_discord_signature_nolen(signature, timestamp, body) ==
    signature.hex /\ signature.signs = timestamp \o body

verify_discord_signature(signature, timestamp, body) ==
    /\ signature.len128
    /\ signature.hex
    /\ signature.signs = timestamp \o body

\* interactions_only.lambda_handler: verify, parse, answer PING, answer a
\* command with a canned text, 400 for any other type, 500 on an exception.
interactions_only_handler(r) ==
    IF ~verify_discord_signature(r.sig, r.ts, r.body)
    THEN [status |-> 401, kind |-> "unauthorized"]
    ELSE IF ~JsonLoads(r.body) \/ r.body[1].k # "doc"
    THEN [status |-> 500, kind |-> "error"]
    ELSE IF r.body[1].type = 1 THEN [status |-> 200, kind |-> "pong"]
    ELSE IF r.body[1].type = 2
    THEN IF r.body[1].wf THEN [status |-> 200, kind |-> "canned"]
         ELSE [status |-> 500, kind |-> "error"]
    ELSE [status |-> 400, kind |-> "unknown_type"]

LightInit ==
    lightLast = [called |-> FALSE, req |-> NoRequest,
                 out |-> [status |-> 0, kind |-> "none"]]

\* One HTTP request arrives at the lightweight handler and is answered
\* (the handler keeps nothing between requests).
LightweightHandler ==
    /\ ~lightLast.called
    /\ \E r \in Requests :
         lightLast' = [called |-> TRUE, req |-> r, out |-> interactions_only_handler(r)]

\* ------------------------------------------------------------------------
\* Watch-list commands of concurrent invocations
\* (handlers/interactions_handler.py _handle_add_command,
\* _handle_remove_command, _handle_alert_command)
\* ------------------------------------------------------------------------
MaxCommands == 2                 \* invocations in flight at once
Invocations == 1..MaxCommands
WatchSymbol == "AAPL"            \* the symbol S every command names
WatchKinds == {"add", "remove", "alert"}
AlertThresholds == {{}} \cup {{v} : v \in -1..MaxThreshold}

\* get_monitored_stock: get_item, then the item as a MonitoredStock: a
\* falsy stored threshold reads as None, a negative one fails the model's
\* validator.
get_monitored_stock(table, symbol, storeOk) ==
    IF ~storeOk THEN [result |-> "raise", stock |-> {}]
    ELSE IF \E item \in table[symbol] : \E v \in item.upper \cup item.lower : v < 0
    THEN [result |-> "raise", stock |-> {}]
    ELSE [result |-> "ok",
          stock |-> {Stock(symbol, Truthy(item.upper), Truthy(item.lower)) : item \in table[symbol]}]

\* What the rest of a command does after its read: the table after its
\* write, its reply, and the item its own write put in the table (none
\* when the write did not take effect).
Written(out, reply) ==
    [table |-> out.table, reply |-> reply,
     stored |-> IF out.result = "true" THEN out.table[WatchSymbol] ELSE {}]

\* _handle_add_command after the read.
handle_add_command_unchecked(table, existing, storeOk) ==
    IF existing # {} THEN Written(CallResult(table, "none"), "already")
    ELSE LET out == create_monitored_stock(table, Stock(WatchSymbol, {}, {}), storeOk)
         IN  Written(out, IF out.result = "raise" THEN "failed" ELSE "success")

handle_add_command(table, existing, storeOk) ==
    IF existing # {} THEN Written(CallResult(table, "none"), "already")
    ELSE LET out == create_monitored_stock(table, Stock(WatchSymbol, {}, {}), storeOk)
         IN  Written(out, IF out.result = "true" THEN "success" ELSE "failed")

\* _handle_remove_command after the read.
handle_remove_command(table, existing, storeOk) ==
    IF existing = {} THEN Written(CallResult(table, "none"), "failed")
    ELSE LET out == delete_monitored_stock(table, WatchSymbol, storeOk)
         IN  Written(out, IF out.result = "true" THEN "success" ELSE "failed")

\* _handle_alert_command after the read: create the stock with the
\* threshold (the model's validator refuses a threshold <= 0) or assign the
\* threshold to the stock read and update it; the reply is the success text
\* unless an exception was raised.
handle_alert_command(table, existing, threshold, storeOk) ==
    LET T == CHOOSE v \in threshold : TRUE
        out == IF existing = {}
               THEN IF T <= 0 THEN CallResult(table, "raise")
                    ELSE create_monitored_stock(table, Stock(WatchSymbol, {T}, {}), storeOk)
               ELSE LET stock == CHOOSE e \in existing : TRUE
                    IN  update_monitored_stock(table, [stock EXCEPT !.upper = {T}], storeOk)
    IN  Written(out, IF out.result = "raise" THEN "failed" ELSE "success")

Idle == [kind |-> "none", threshold |-> {}, pc |-> "idle", existing |-> {},
         reply |-> "none", stored |-> {}]

RaceInit == commands = [i \in Invocations |-> Idle]

\* An invocation receives a command on S and runs it up to the answer of
\* its get_monitored_stock; a command whose threshold (a JSON number) is
\* falsy, missing or 0, or whose read raises, replies with a failure at
\* once.
CommandRead ==
    \E i \in Invocations, kind \in WatchKinds, threshold \in AlertThresholds, storeOk \in BOOLEAN :
        /\ commands[i].pc = "idle"
        /\ (kind # "alert") => threshold = {}
        /\ LET got == get_monitored_stock(stocks, WatchSymbol, storeOk)
               failed == (kind = "alert" /\ Truthy(threshold) = {}) \/ got.result = "raise"
           IN  commands' = [commands EXCEPT ![i] =
                   [kind |-> kind, threshold |-> threshold,
                    pc |-> IF failed THEN "done" ELSE "write",
                    existing |-> IF failed THEN {} ELSE got.stock,
                    reply |-> IF failed THEN "failed" ELSE "none",
                    stored |-> {}]]
        /\ UNCHANGED storeVars

\* The rest of a command: its conditional write and its reply.
CommandWrite(i, done) ==
    /\ commands[i].pc = "write"
    /\ stocks' = done.table
    /\ commands' = [commands EXCEPT ![i].pc = "done", ![i].reply = done.reply,
                                    ![i].stored = done.stored]
    /\ UNCHANGED lastCall

AddWrite ==
    \E i \in Invocations, storeOk \in BOOLEAN :
        /\ commands[i].kind = "add"
        /\ CommandWrite(i, handle_add_command(stocks, commands[i].existing, storeOk))

RemoveWrite ==
    \E i \in Invocations, storeOk \in BOOLEAN :
        /\ commands[i].kind = "remove"
        /\ CommandWrite(i, handle_remove_command(stocks, commands[i].existing, storeOk))

AlertWrite ==
    \E i \in Invocations, storeOk \in BOOLEAN :
        /\ commands[i].kind = "alert"
        /\ CommandWrite(i, handle_alert_command(stocks, commands[i].existing,
                                                commands[i].threshold, storeOk))

\* The invocation ends and the next command gets a fresh one.
CommandReturn ==
    \E i \in Invocations :
        /\ commands[i].pc = "done"
        /\ commands' = [commands EXCEPT ![i] = Idle]
        /\ UNCHANGED storeVars

\* ------------------------------------------------------------------------
\* Interleaved send_alert calls on one DiscordHandler
\* (handlers/discord_handler.py)
\* ------------------------------------------------------------------------
MaxSenders == 2                  \* send_alert coroutines in flight at once
Senders == 1..MaxSenders
NotSending == [pc |-> "idle", alert |-> Alert("", "", 0)]

SendInit == sending = [i \in Senders |-> NotSending]

\* send_alert up to its await of the webhook POST: the duplicate check,
\* which records the key, then can_send; the call goes on to the POST only
\* when both pass.
SendAlertBegin ==
    \E i \in Senders, alert \in EngineAlerts :
        LET dup == should_send_alert(sent_alerts, alert, now)
            can == can_send(requests, now)
        IN  /\ sending[i].pc = "idle"
            /\ sent_alerts' = dup.sent
            /\ requests' = IF dup.ok THEN can.requests ELSE requests
            /\ sending' = [sending EXCEPT ![i] =
                              IF dup.ok /\ can.ok THEN [pc |-> "post", alert |-> alert]
                              ELSE NotSending]
            /\ UNCHANGED <<now, recent_alerts, lastSend, alertLog>>

\* The webhook answers: record_request when it accepted the message.
SendAlertFinish ==
    \E i \in Senders, webhookOk \in BOOLEAN :
        /\ sending[i].pc = "post"
        /\ requests' = IF webhookOk THEN Append(requests, now) ELSE requests
        /\ sending' = [sending EXCEPT ![i] = NotSending]
        /\ UNCHANGED <<now, sent_alerts, recent_alerts, lastSend, alertLog>>

\* ------------------------------------------------------------------------
\* AlertRepository (repositories/alert_repository.py)
\* ------------------------------------------------------------------------
MaxStoredAlerts == 2             \* alerts in the table
MaxAlertClock == 90              \* minutes
ClockStep == 30                  \* minutes between two events
Cooldowns == {30, 90}            \* cooldown_minutes: the default and one beyond an hour
AlertTypes == {"price_upper", "volume"}

\* A stored alert: triggered_at in minutes, and whether the datetime
\* carries a timezone (Alert's default datetime.now(UTC) does, isoformat
\* and fromisoformat keep it).
StoredAlert(symbol, alert_type, triggered_at, aware) ==
    [symbol |-> symbol, alert_type |-> alert_type, triggered_at |-> triggered_at,
     aware |-> aware]

\* get_recent_alerts_by_symbol: the symbol's alerts with
\* timestamp >= now - hours, newest first.
get_recent_alerts_by_symbol(table, symbol, hours, t) ==
    LET recent == {a \in table : a.symbol = symbol
                                  /\ a.triggered_at >= t - hours * MinutesPerHour}
        RECURSIVE Newest(_)
        Newest(as) ==
            IF as = {} THEN << >>
            ELSE LET a == CHOOSE x \in as : \A y \in as : y.triggered_at <= x.triggered_at
                 IN  <<a>> \o Newest(as \ {a})
    IN  Newest(recent)

\* check_duplicate_alert: the last hour's alerts of the symbol, newest
\* first; the first one of the type within the cooldown answers True.
\* cutoff_time is datetime.utcnow(), without a timezone: comparing an aware
\* triggered_at with it raises TypeError, which the method answers with
\* False.
check_duplicate_alert(table, symbol, alert_type, cooldown_minutes, t) ==
    LET recent == get_recent_alerts_by_symbol(table, symbol, 1, t)
        RECURSIVE Loop(_)
        Loop(i) ==
            IF i > Len(recent) THEN FALSE
            ELSE IF recent[i].alert_type # alert_type THEN Loop(i + 1)
            ELSE IF recent[i].aware THEN FALSE
            ELSE IF recent[i].triggered_at > t - cooldown_minutes THEN TRUE
            ELSE Loop(i + 1)
    IN  Loop(1)

AlertTableInit ==
    /\ alertTable = {}
    /\ alertClock = 0
    /\ dupLast = [called |-> FALSE, symbol |-> "", alert_type |-> "",
                  cooldown_minutes |-> 0, time |-> 0, table |-> {}, result |-> FALSE]

AlertClockTick ==
    /\ alertClock + ClockStep <= MaxAlertClock
    /\ alertClock' = alertClock + ClockStep
    /\ UNCHANGED <<alertTable, dupLast>>

\* create_alert: the alert is stored with its trigger time as timestamp.
CreateAlert ==
    /\ Cardinality(alertTable) < MaxStoredAlerts
    /\ \A a \in alertTable : a.triggered_at # alertClock
    /\ \E symbol \in Symbols, alert_type \in AlertTypes, aware \in BOOLEAN :
         alertTable' = alertTable \cup {StoredAlert(symbol, alert_type, alertClock, aware)}
    /\ UNCHANGED <<alertClock, dupLast>>

CheckDuplicateAlert ==
    /\ \E symbol \in Symbols, alert_type \in AlertTypes, cooldown_minutes \in Cooldowns :
         dupLast' = [called |-> TRUE, symbol |-> symbol, alert_type |-> alert_type,
                     cooldown_minutes |-> cooldown_minutes,
                     time |-> alertClock, table |-> alertTable,
                     result |-> check_duplicate_alert(alertTable, symbol, alert_type,
                                                      cooldown_minutes, alertClock)]
    /\ UNCHANGED <<alertTable, alertClock>>

\* ------------------------------------------------------------------------
\* PortfolioRepository (repositories/portfolio_repository.py)
\* ------------------------------------------------------------------------
MaxRepoCalls == 3                \* repository calls in one behaviour
HoldingIds == {"h1", "h2"}
HoldingAttributes == {"holding_id", "portfolio_id", "symbol", "quantity", "purchase_price",
                      "purchase_date", "notes", "is_active", "created_at", "updated_at"}

\* An item of the table: the attributes it has, and the values of those
\* the repository's writes set.
HoldingItem(attributes, symbol, quantity, is_active, updated_at) ==
    [attributes |-> attributes, symbol |-> symbol, quantity |-> quantity,
     is_active |-> is_active, updated_at |-> updated_at]

\* add_holding: put_item of the whole holding.
repo_add_holding(table, holding_id, symbol, quantity, t, storeOk) ==
    IF ~storeOk THEN CallResult(table, "false")
    ELSE CallResult([table EXCEPT ![holding_id] =
                        {HoldingItem(HoldingAttributes, symbol, quantity, TRUE, t)}], "true")

\* remove_holding: update_item SET is_active, updated_at with no condition
\* expression: the store updates the item with that key, and creates it
\* from the key and the two attributes when there is none.
repo_remove_holding(table, holding_id, t, storeOk) ==
    IF ~storeOk THEN CallResult(table, "false")
    ELSE IF table[holding_id] = {}
    THEN CallResult([table EXCEPT ![holding_id] =
                        {HoldingItem({"holding_id", "is_active", "updated_at"}, "", 0, FALSE, t)}],
                    "true")
    ELSE CallResult([table EXCEPT ![holding_id] =
                        {[item EXCEPT !.is_active = FALSE, !.updated_at = t] : item \in @}],
                    "true")

RepoInit ==
    /\ holdings_table = [h \in HoldingIds |-> {}]
    /\ repoClock = 0
    /\ repoLast = [op |-> "none", holding_id |-> "", before |-> holdings_table,
                   result |-> "none"]

RepoCall(op, holding_id, out) ==
    /\ repoClock < MaxRepoCalls
    /\ repoClock' = repoClock + 1
    /\ holdings_table' = out.table
    /\ repoLast' = [op |-> op, holding_id |-> holding_id, before |-> holdings_table,
                    result |-> out.result]

RepoAddHolding ==
    \E holding_id \in HoldingIds, symbol \in Symbols, quantity \in 1..2, storeOk \in BOOLEAN :
        RepoCall("add", holding_id,
                 repo_add_holding(holdings_table, holding_id, symbol, quantity, repoClock, storeOk))

RepoRemoveHolding ==
    \E holding_id \in HoldingIds, storeOk \in BOOLEAN :
        RepoCall("remove", holding_id,
                 repo_remove_holding(holdings_table, holding_id, repoClock, storeOk))

\* ------------------------------------------------------------------------
\* /chart (handlers/interactions_handler.py, services/data_provider.py)
\* ------------------------------------------------------------------------
MaxPoints == 3                   \* rows of a price history
MaxClose == 4                    \* closing prices are 1..MaxClose
Periods == {"5d", "1mo"}

\* The rows of ticker.history(): closing prices in date order, the
\* earliest first; a row's date is its position.
Histories == UNION {[1..n -> 1..MaxClose] : n \in 0..MaxPoints}

\* _parse_yahoo_history: one StockPrice per row, appended in row order.
parse_yahoo_history(rows) ==
    [i \in 1..Len(rows) |-> [timestamp |-> i, price |-> rows[i]]]

\* _handle_chart_command on the parsed history: what the reply reports.
NoChart == [found |-> FALSE, from |-> 0, to |-> 0, points |-> 0, start_price |-> 0,
            end_price |-> 0, price_change |-> 0, marker |-> "none"]

handle_chart_command(historical_data) ==
    IF Len(historical_data) = 0 THEN NoChart
    ELSE LET latest_price == historical_data[1]
             oldest_price == historical_data[Len(historical_data)]
             price_change == latest_price.price - oldest_price.price
         IN  [found |-> TRUE, from |-> oldest_price.timestamp, to |-> latest_price.timestamp,
              points |-> Len(historical_data),
              start_price |-> oldest_price.price, end_price |-> latest_price.price,
              price_change |-> price_change,
              marker |-> IF price_change > 0 THEN "up"
                         ELSE IF price_change < 0 THEN "down" ELSE "flat"]

ChartInit == chartLast = [called |-> FALSE, period |-> "", rows |-> << >>, reply |-> NoChart]

\* One /chart command: the history is fetched, parsed and summarised.
HandleChart ==
    /\ ~chartLast.called
    /\ \E period \in Periods, rows \in Histories :
         chartLast' = [called |-> TRUE, period |-> period, rows |-> rows,
                       reply |-> handle_chart_command(parse_yahoo_history(rows))]

\* ------------------------------------------------------------------------
\* Concurrent process_alerts calls on one AlertEngine
\* (services/alert_engine.py)
\* ------------------------------------------------------------------------
MaxCallers == 2                  \* process_alerts coroutines at once
Callers == 1..MaxCallers
NotProcessing == [pc |-> "idle", alerts |-> << >>, i |-> 0]

\* The alerts the calls in progress have still to process.
PendingAlerts ==
    Sum([c \in Callers |-> IF engineCalls[c].pc = "idle" THEN 0
                           ELSE Len(engineCalls[c].alerts) - engineCalls[c].i + 1])

EngineInit ==
    /\ engineLock = 0
    /\ engineCalls = [c \in Callers |-> NotProcessing]

\* A call moves on after an alert: to the next one, or, the list done, to
\* cleanup_old_records and the release of the lock.
AfterAlert(c, recent) ==
    IF engineCalls[c].i < Len(engineCalls[c].alerts)
    THEN /\ engineCalls' = [engineCalls EXCEPT ![c].pc = "check", ![c].i = @ + 1]
         /\ recent_alerts' = recent
         /\ UNCHANGED engineLock
    ELSE /\ engineCalls' = [engineCalls EXCEPT ![c] = NotProcessing]
         /\ recent_alerts' = cleanup_old_records(recent, now)
         /\ engineLock' = IF engineLock = c THEN 0 ELSE engineLock

\* process_alerts is called and enters "async with self._lock".
ProcessAcquire_nolock ==
    \E c \in Callers, n \in 1..MaxAlertBatch : \E alerts \in [1..n -> EngineAlerts] :
        /\ engineCalls[c].pc = "idle"
        /\ Len(alertLog) + PendingAlerts + n <= MaxLog
        /\ engineLock' = c
        /\ engineCalls' = [engineCalls EXCEPT ![c] = [pc |-> "check", alerts |-> alerts, i |-> 1]]
        /\ UNCHANGED notifyVars

ProcessAcquire ==
    \E c \in Callers, n \in 1..MaxAlertBatch : \E alerts \in [1..n -> EngineAlerts] :
        /\ engineCalls[c].pc = "idle"
        /\ engineLock = 0
        /\ Len(alertLog) + PendingAlerts + n <= MaxLog
        /\ engineLock' = c
        /\ engineCalls' = [engineCalls EXCEPT ![c] = [pc |-> "check", alerts |-> alerts, i |-> 1]]
        /\ UNCHANGED notifyVars

\* The loop takes the next alert and asks the history; a suppressed alert
\* is skipped at once.
ProcessCheck ==
    \E c \in Callers :
        LET alert == engineCalls[c].alerts[engineCalls[c].i] IN
        /\ engineCalls[c].pc = "check"
        /\ IF history_should_send(recent_alerts, alert_key(alert), now)
           THEN /\ engineCalls' = [engineCalls EXCEPT ![c].pc = "send"]
                /\ UNCHANGED <<engineLock, recent_alerts, alertLog>>
           ELSE /\ AfterAlert(c, recent_alerts)
                /\ alertLog' = Append(alertLog,
                                  LogEntry(alert, now, FALSE, FALSE, FALSE, FALSE, {}, FALSE))
        /\ UNCHANGED <<now, sent_alerts, requests, lastSend>>

\* The awaited send_alert returns: the alert is marked sent and recorded
\* in the history, or, when the handler raised, returned unsent.
ProcessSend ==
    \E c \in Callers, webhookOk \in BOOLEAN, raises \in BOOLEAN :
        LET alert == engineCalls[c].alerts[engineCalls[c].i]
            out == send_alert(sent_alerts, requests, alert, now, webhookOk)
        IN  /\ engineCalls[c].pc = "send"
            /\ raises => webhookOk
            /\ IF raises
               THEN /\ AfterAlert(c, recent_alerts)
                    /\ alertLog' = Append(alertLog,
                                      LogEntry(alert, now, TRUE, FALSE, FALSE, FALSE, {}, TRUE))
                    /\ UNCHANGED <<sent_alerts, requests>>
               ELSE /\ AfterAlert(c, [recent_alerts EXCEPT ![alert_key(alert)] = {now}])
                    /\ alertLog' = Append(alertLog,
                                      LogEntry(alert, now, TRUE, out.posted, out.ok, TRUE,
                                               {now}, TRUE))
                    /\ sent_alerts' = out.sent
                    /\ requests' = out.requests
            /\ UNCHANGED <<now, lastSend>>

\* ------------------------------------------------------------------------
\* Specifications
\* ------------------------------------------------------------------------
ComponentsInit ==
    /\ HttpInit /\ QueueInit /\ StoreInit /\ NotifyInit /\ CommandInit /\ ProviderInit
    /\ PortfolioInit /\ EntryInit /\ SweepInit /\ ConfigInit /\ LightInit /\ RaceInit /\ SendInit /\ AlertTableInit /\ RepoInit /\ ChartInit /\ EngineInit

Init == ComponentsInit /\ SecurityInit /\ VolumeInit

\* A component is checked with the other components' constructor
\* arguments left at their defaults.
DefaultInit ==
    Init /\ admin_users = {} /\ allowed_channels = {} /\ alpha_vantage_api_key = {}

CommandOnlyInit == Init /\ alpha_vantage_api_key = {}

ProviderOnlyInit == Init /\ admin_users = {} /\ allowed_channels = {}

\* The rate limiter after construction, or after AgedMinutes minutes of
\* use at the per-minute limit.
SecurityEitherInit ==
    /\ ComponentsInit /\ VolumeInit
    /\ admin_users = {} /\ allowed_channels = {} /\ alpha_vantage_api_key = {}
    /\ (SecurityInit \/ SecurityAgedInit)

\* The volume history after construction, or one sample short of full.
VolumeEitherInit ==
    /\ ComponentsInit /\ SecurityInit
    /\ admin_users = {} /\ allowed_channels = {} /\ alpha_vantage_api_key = {}
    /\ (VolumeInit \/ VolumeAgedInit)

HttpNext ==
    (HandleInteraction \/ HandleAsync) /\ UNCHANGED <<queueVars, storeVars, notifyVars, secVars, cmdVars, provVars, pfVars, entryVars, sweepVars, cfgVars, volVars, lightVars, raceVars, sendVars, dupVars, repoVars, chartVars, engineVars>>

SpecHttp == DefaultInit /\ [][HttpNext]_vars

QueueNext == QueueHandler /\ UNCHANGED <<httpVars, storeVars, notifyVars, secVars, cmdVars, provVars, pfVars, entryVars, sweepVars, cfgVars, volVars, lightVars, raceVars, sendVars, dupVars, repoVars, chartVars, engineVars>>

SpecQueue == DefaultInit /\ [][QueueNext]_vars

StoreNext ==
    (CreateStock \/ UpdateStock \/ DeleteStock)
        /\ UNCHANGED <<httpVars, queueVars, notifyVars, secVars, cmdVars, provVars, pfVars, entryVars, sweepVars, cfgVars, volVars, lightVars, raceVars, sendVars, dupVars, repoVars, chartVars, engineVars>>

SpecStore == DefaultInit /\ [][StoreNext]_vars

FilterNext == (Tick \/ ShouldSendAlert) /\ UNCHANGED <<httpVars, queueVars, storeVars, secVars, cmdVars, provVars, pfVars, entryVars, sweepVars, cfgVars, volVars, lightVars, raceVars, sendVars, dupVars, repoVars, chartVars, engineVars>>

SpecFilter == DefaultInit /\ [][FilterNext]_vars

DiscordNext ==
    (Tick \/ SendAlert \/ SendStatusReport \/ TestConnection) /\ UNCHANGED <<httpVars, queueVars, storeVars, secVars, cmdVars, provVars, pfVars, entryVars, sweepVars, cfgVars, volVars, lightVars, raceVars, sendVars, dupVars, repoVars, chartVars, engineVars>>

SpecDiscord == DefaultInit /\ [][DiscordNext]_vars

AlertNext == (Tick \/ ProcessAlerts) /\ UNCHANGED <<httpVars, queueVars, storeVars, secVars, cmdVars, provVars, pfVars, entryVars, sweepVars, cfgVars, volVars, lightVars, raceVars, sendVars, dupVars, repoVars, chartVars, engineVars>>

SpecAlert == DefaultInit /\ [][AlertNext]_vars
SecurityNext ==
    (SecTick \/ CheckRateLimit)
        /\ UNCHANGED <<httpVars, queueVars, storeVars, notifyVars, cmdVars, provVars, pfVars, entryVars, sweepVars, cfgVars, volVars, lightVars, raceVars, sendVars, dupVars, repoVars, chartVars, engineVars>>

SpecSecurity == DefaultInit /\ [][SecurityNext]_vars

CommandNext ==
    ProcessMessage
        /\ UNCHANGED <<httpVars, queueVars, storeVars, notifyVars, secVars, provVars, pfVars, entryVars, sweepVars, cfgVars, volVars, lightVars, raceVars, sendVars, dupVars, repoVars, chartVars, engineVars>>

SpecCommand == CommandOnlyInit /\ [][CommandNext]_vars

ProviderNext ==
    GetCurrentPrice
        /\ UNCHANGED <<httpVars, queueVars, storeVars, notifyVars, secVars, cmdVars, pfVars, entryVars, sweepVars, cfgVars, volVars, lightVars, raceVars, sendVars, dupVars, repoVars, chartVars, engineVars>>

SpecProvider == ProviderOnlyInit /\ [][ProviderNext]_vars

PortfolioNext ==
    (\/ CreatePortfolio \/ AddHolding \/ RemoveHolding \/ UpdateHolding
     \/ CalculatePortfolioPnl \/ HandlePortfolioAdd \/ HandlePortfolioRemove)
        /\ UNCHANGED <<httpVars, queueVars, storeVars, notifyVars, secVars, cmdVars, provVars, entryVars, sweepVars, cfgVars, volVars, lightVars, raceVars, sendVars, dupVars, repoVars, chartVars, engineVars>>

SpecPortfolio == DefaultInit /\ [][PortfolioNext]_vars

\* The text commands and explicit portfolio creation only.
PortfolioCommandNext ==
    (\/ CreatePortfolio \/ HandlePortfolioAdd \/ HandlePortfolioRemove)
        /\ UNCHANGED <<httpVars, queueVars, storeVars, notifyVars, secVars, cmdVars, provVars, entryVars, sweepVars, cfgVars, volVars, lightVars, raceVars, sendVars, dupVars, repoVars, chartVars, engineVars>>

SpecPortfolioCommand == DefaultInit /\ [][PortfolioCommandNext]_vars

EntryNext ==
    LambdaHandler
        /\ UNCHANGED <<httpVars, queueVars, storeVars, notifyVars, secVars, cmdVars, provVars, pfVars, sweepVars, cfgVars, volVars, lightVars, raceVars, sendVars, dupVars, repoVars, chartVars, engineVars>>

SpecEntry == DefaultInit /\ [][EntryNext]_vars

SweepNext ==
    GenerateAndSendPnlReports
        /\ UNCHANGED <<httpVars, queueVars, storeVars, notifyVars, secVars, cmdVars, provVars, pfVars, entryVars, cfgVars, volVars, lightVars, raceVars, sendVars, dupVars, repoVars, chartVars, engineVars>>

SpecSweep == DefaultInit /\ [][SweepNext]_vars

ConfigNext ==
    (PutParameter \/ GetParameter)
        /\ UNCHANGED <<httpVars, queueVars, storeVars, notifyVars, secVars, cmdVars, provVars, pfVars, entryVars, sweepVars, volVars, lightVars, raceVars, sendVars, dupVars, repoVars, chartVars, engineVars>>

SpecConfig == DefaultInit /\ [][ConfigNext]_vars

VolumeNext ==
    UpdateVolumeHistory
        /\ UNCHANGED <<httpVars, queueVars, storeVars, notifyVars, secVars, cmdVars, provVars, pfVars, entryVars, sweepVars, cfgVars, lightVars, raceVars, sendVars, dupVars, repoVars, chartVars, engineVars>>

SpecVolume == VolumeEitherInit /\ [][VolumeNext]_vars

LightNext ==
    LightweightHandler
        /\ UNCHANGED <<httpVars, queueVars, storeVars, notifyVars, secVars, cmdVars, provVars, pfVars, entryVars, sweepVars, cfgVars, volVars, raceVars, sendVars, dupVars, repoVars, chartVars, engineVars>>

SpecLight == DefaultInit /\ [][LightNext]_vars

RaceNext ==
    (CommandRead \/ AddWrite \/ RemoveWrite \/ AlertWrite \/ CommandReturn)
        /\ UNCHANGED <<httpVars, queueVars, notifyVars, secVars, cmdVars, provVars, pfVars, entryVars, sweepVars, cfgVars, volVars, lightVars, sendVars, dupVars, repoVars, chartVars, engineVars>>

SpecRace == DefaultInit /\ [][RaceNext]_vars

\* Concurrent /add and /alert commands with no /remove among them; the
\* invocations keep their replies.
AddRaceNext ==
    ((CommandRead /\ \A i \in Invocations : commands'[i].kind # "remove") \/ AddWrite \/ AlertWrite)
        /\ UNCHANGED <<httpVars, queueVars, notifyVars, secVars, cmdVars, provVars, pfVars, entryVars, sweepVars, cfgVars, volVars, lightVars, sendVars, dupVars, repoVars, chartVars, engineVars>>

SpecAddRace == DefaultInit /\ [][AddRaceNext]_vars

SendRaceNext ==
    \/ (Tick \/ SendStatusReport) /\ UNCHANGED <<httpVars, queueVars, storeVars, secVars, cmdVars, provVars, pfVars, entryVars, sweepVars, cfgVars, volVars, lightVars, raceVars, sendVars, dupVars, repoVars, chartVars, engineVars>>
    \/ (SendAlertBegin \/ SendAlertFinish) /\ UNCHANGED <<httpVars, queueVars, storeVars, secVars, cmdVars, provVars, pfVars, entryVars, sweepVars, cfgVars, volVars, lightVars, raceVars, dupVars, repoVars, chartVars, engineVars>>

SpecSendRace == DefaultInit /\ [][SendRaceNext]_vars

AlertTableNext ==
    (AlertClockTick \/ CreateAlert \/ CheckDuplicateAlert)
        /\ UNCHANGED <<httpVars, queueVars, storeVars, notifyVars, secVars, cmdVars, provVars, pfVars, entryVars, sweepVars, cfgVars, volVars, lightVars, raceVars, sendVars, repoVars, chartVars, engineVars>>

SpecAlertTable == DefaultInit /\ [][AlertTableNext]_vars

RepoNext ==
    (RepoAddHolding \/ RepoRemoveHolding)
        /\ UNCHANGED <<httpVars, queueVars, storeVars, notifyVars, secVars, cmdVars, provVars, pfVars, entryVars, sweepVars, cfgVars, volVars, lightVars, raceVars, sendVars, dupVars, chartVars, engineVars>>

SpecRepo == DefaultInit /\ [][RepoNext]_vars

ChartNext ==
    HandleChart
        /\ UNCHANGED <<httpVars, queueVars, storeVars, notifyVars, secVars, cmdVars, provVars, pfVars, entryVars, sweepVars, cfgVars, volVars, lightVars, raceVars, sendVars, dupVars, repoVars, engineVars>>

SpecChart == DefaultInit /\ [][ChartNext]_vars

EngineRaceNext ==
    \/ Tick /\ UNCHANGED <<httpVars, queueVars, storeVars, secVars, cmdVars, provVars, pfVars, entryVars, sweepVars, cfgVars, volVars, lightVars, raceVars, sendVars, dupVars, repoVars, chartVars, engineVars>>
    \/ (ProcessAcquire \/ ProcessCheck \/ ProcessSend) /\ UNCHANGED <<httpVars, queueVars, storeVars, secVars, cmdVars, provVars, pfVars, entryVars, sweepVars, cfgVars, volVars, lightVars, raceVars, sendVars, dupVars, repoVars, chartVars>>

SpecEngineRace == DefaultInit /\ [][EngineRaceNext]_vars

\* At most MaxAgedCalls check_rate_limit calls in one behaviour.
SecurityAgedNext == SecurityNext /\ secCalls' <= MaxAgedCalls

SpecSecurityAged == SecurityEitherInit /\ [][SecurityAgedNext]_vars

\* ------------------------------------------------------------------------
\* Claims about the HTTP path
\* ------------------------------------------------------------------------
Handled == http.id > 0

\* The Ed25519 check itself: the header holds 128 hex characters that are a
\* signature of timestamp + body.
CryptoValid(r) ==
    r.sig.present /\ r.sig.len128 /\ r.sig.hex /\ r.sig.signs = r.ts \o r.body

NoProcessing(out) ==
    /\ out.status = 401
    /\ ~out.parsed
    /\ out.invokes = 0
    /\ out.syncRuns = 0
    /\ out.event = {}
    /\ out.shown = "none"

\* C1 as stated: a request whose verification fails, or that lacks the
\* signature header or the timestamp header, or whose signature is not 128
\* hex characters, is answered 401 and nothing else is done with it.
C1_AsStated ==
    Handled /\ (~CryptoValid(http.req) \/ http.req.ts = << >>)
        => NoProcessing(http.out)

\* C1 amended: a request whose verification of timestamp + body fails (a
\* missing signature header, a signature that is not 128 hex characters,
\* a signature of another message) is answered 401 and nothing else is
\* done with it; a missing timestamp header counts as the empty timestamp.
C1_RejectUnverified ==
    Handled /\ ~CryptoValid(http.req) => NoProcessing(http.out)

\* A genuine signature replayed without its timestamp header was rejected.
C1_Witness ==
    /\ Handled
    /\ http.req.sig.signs \in SignedMessages
    /\ http.req.sig.len128
    /\ http.req.ts = << >>
    /\ http.req.sig.signs = <<Digits>> \o http.req.body
    /\ http.out.status = 401

\* C2 as stated (safety form): whenever the user's message shows the
\* placeholder, an accepted re-invocation is still to run for it, so no
\* path ends with the placeholder alone.
C2_PlaceholderHasPendingWork ==
    \A i \in Ids :
        original[i] = "placeholder" => \E e \in asyncEvents : e.id = i

VerifiedCommand ==
    /\ Handled
    /\ CryptoValid(http.req)
    /\ Len(http.req.body) = 1
    /\ http.req.body[1].k = "doc"
    /\ http.req.body[1].type = 2
    /\ http.req.body[1].wf

ShouldFail(r) ==
    \/ r.body \in {"nobody", "badjson", "jsonlist", "other", "command_nocreds"}
    \/ r.body = "command" /\ (~r.key \/ r.post = "raise")

\* C4: every record of the batch is reached, the failure list holds
\* exactly the ids of the records that failed, and a batch without failures
\* gets the plain 200 response with no failure list.
C4_PartialBatchFailures ==
    LET ids == DOMAIN queueBatch
        bad == {i \in ids : ShouldFail(queueBatch[i])}
    IN  /\ queueVisited = [i \in ids |-> i]
        /\ IF bad = {}
           THEN /\ DOMAIN queueResult = {"statusCode", "processed"}
                /\ queueResult.statusCode \in {0, 200}
                /\ queueResult.processed = Len(queueBatch)
           ELSE /\ DOMAIN queueResult = {"batchItemFailures"}
                /\ {queueResult.batchItemFailures[k] :
                        k \in DOMAIN queueResult.batchItemFailures} = bad
                /\ Len(queueResult.batchItemFailures) = Cardinality(bad)

\* A batch of three whose second record alone failed.
C4_Witness ==
    /\ Len(queueBatch) = 3
    /\ queueBatch[2].body = "badjson"
    /\ DOMAIN queueResult = {"batchItemFailures"}
    /\ queueResult.batchItemFailures = <<2>>
    /\ queueVisited = <<1, 2, 3>>
\* ------------------------------------------------------------------------
\* Claims about the stock repository
\* ------------------------------------------------------------------------

C6_SentOnlyWhenDelivered ==
    \A i \in 1..Len(alertLog) :
        LET e == alertLog[i] IN
        /\ (e.is_sent \/ e.sent_at # {}) => e.delivered
        /\ (e.called /\ ~e.delivered) => (~e.is_sent /\ e.sent_at = {} /\ e.returned)

\* The earlier alerts of the same key that process_alerts recorded in its
\* history no more than the cooldown before alert j.
RecordedWithinCooldown(j) ==
    {i \in 1..(j - 1) :
        /\ alertLog[i].key = alertLog[j].key
        /\ alertLog[i].is_sent
        /\ alertLog[j].time - alertLog[i].time <= 30}

\* The earlier alerts of the same key processed no more than the cooldown
\* before alert j.
ProcessedWithinCooldown(j) ==
    {i \in 1..(j - 1) :
        /\ alertLog[i].key = alertLog[j].key
        /\ alertLog[j].time - alertLog[i].time <= 30}

\* C7 as stated: of two alerts with the same key processed within the
\* 30-minute cooldown, the first of them being the first of its key in the
\* window, exactly one is delivered and the other is suppressed, unsent and
\* not returned.
C7_ExactlyOneDelivered ==
    \A j \in 1..Len(alertLog) : \A i \in ProcessedWithinCooldown(j) :
        ProcessedWithinCooldown(i) = {} =>
            /\ alertLog[i].delivered
            /\ ~alertLog[j].delivered /\ ~alertLog[j].is_sent /\ ~alertLog[j].returned

\* C7, amended: once send_alert has returned for an alert, delivered or
\* not, an alert with the same key processed no more than 30 minutes later
\* is suppressed: send_alert is not called, it stays unsent and is not
\* returned.  So at most one alert of a key is delivered in the window, and
\* exactly one when the first is delivered.  An alert with no such
\* predecessor in the last 30 minutes is handed to send_alert and returned.
C7_SuppressedAfterRecordedSend ==
    \A j \in 1..Len(alertLog) :
        LET e == alertLog[j] IN
        /\ RecordedWithinCooldown(j) # {} =>
              (~e.called /\ ~e.posted /\ ~e.delivered /\ ~e.is_sent
                  /\ e.sent_at = {} /\ ~e.returned)
        /\ RecordedWithinCooldown(j) = {} => (e.called /\ e.returned)
        /\ \A i \in ProcessedWithinCooldown(j) :
              ~(alertLog[i].delivered /\ e.delivered)

\* One key: delivered, then suppressed within the cooldown, then delivered
\* again after it.
C7_Witness ==
    \E i, j, k \in 1..Len(alertLog) :
        /\ i < j /\ j < k
        /\ alertLog[i].key = alertLog[j].key /\ alertLog[j].key = alertLog[k].key
        /\ alertLog[i].delivered
        /\ alertLog[j].time - alertLog[i].time <= 30 /\ ~alertLog[j].called
        /\ alertLog[k].time - alertLog[i].time > 30 /\ alertLog[k].delivered

FilterKey == <<lastSend.alert.symbol, lastSend.alert.alert_type, lastSend.alert.threshold_value>>

\* C8: should_send_alert returns true for a key the filter does not hold,
\* false while the key was recorded no more than 15 minutes ago, true again
\* after that; a passed check records the key at the time of the check, a
\* refused one leaves its entry alone, and the entries of other keys are
\* only dropped when they are themselves older than the cooldown.
C8_DuplicateFilter ==
    lastSend.op = "should_send_alert" =>
        /\ lastSend.before[FilterKey] = {} => lastSend.ok
        /\ \A x \in lastSend.before[FilterKey] :
              /\ lastSend.time - x <= 15 => ~lastSend.ok
              /\ lastSend.time - x > 15 => lastSend.ok
        /\ lastSend.ok => sent_alerts[FilterKey] = {lastSend.time}
        /\ ~lastSend.ok => sent_alerts[FilterKey] = lastSend.before[FilterKey]
        /\ \A k \in AlertKeys \ {FilterKey} :
              sent_alerts[k] = {x \in lastSend.before[k] : lastSend.time - x <= 15}

\* A key passes again after its cooldown while another key is still held.
C8_Witness ==
    /\ lastSend.op = "should_send_alert"
    /\ lastSend.ok
    /\ \E x \in lastSend.before[FilterKey] : lastSend.time - x > 15
    /\ \E k \in AlertKeys \ {FilterKey} : sent_alerts[k] # {}

\* The requests the rate limiter had recorded in the 60 seconds before the
\* last call on the client.
RecordedInWindow ==
    Len(SelectSeq(lastSend.reqsBefore, LAMBDA r : (lastSend.time - r) * 60 < 60))

\* C9: the client makes a webhook POST only if fewer than 5 requests are
\* recorded in the last 60 seconds; otherwise the call returns false and
\* nothing is sent.
C9_PostOnlyUnderLimit ==
    /\ lastSend.posted => RecordedInWindow < 5
    /\ RecordedInWindow >= 5 => (~lastSend.ok /\ ~lastSend.posted)

\* ------------------------------------------------------------------------
\* Claims about the per-user rate limiter
\* ------------------------------------------------------------------------

\* C10: a user who has made 20 or more requests within the last minute is
\* blocked: the 20th and every later check is rejected, and a block lasting
\* until 30 minutes after the check that set it is in place.
C10_BlockedAtTwenty ==
    \A u \in Users :
        Len(SelectSeq(recentCalls[u], LAMBDA c : c > secNow - TicksPerMinute)) >= 20 =>
            /\ blocked_users[u] # {}
            /\ lastCheck.user = u => (~lastCheck.allowed /\ lastCheck.msg \in {"suspicious", "blocked"})

\* The calls of user u admitted in the window of the given length that
\* ends at time t (the start excluded, the end included).
AdmittedIn(u, t, length) ==
    Len(SelectSeq(admittedLog[u], LAMBDA a : a > t - length /\ a <= t))

\* The times a trailing window is looked at: now and every time a call
\* was admitted.  A window that ends at another time holds no admission
\* after the last of these before it, so it holds no more than that one.
WindowEnds(u) == {secNow} \cup {admittedLog[u][i] : i \in DOMAIN admittedLog[u]}

\* C11: for every user, at any time, no more than 10 of the user's calls
\* were admitted in the 60 seconds up to that time, and no more than 100 in
\* the hour up to that time.

C11_AdmittedWithinLimits ==
    \A u \in Users : \A t \in WindowEnds(u) :
        /\ AdmittedIn(u, t, TicksPerMinute) <= 10
        /\ AdmittedIn(u, t, 60 * TicksPerMinute) <= 100

\* Both limits are met: 100 admitted in the last hour, 10 of them in the
\* last minute but not at one instant, and the last call was refused.
C11_Witness ==
    \E u \in Users :
        /\ AdmittedIn(u, secNow, 60 * TicksPerMinute) = 100
        /\ AdmittedIn(u, secNow, TicksPerMinute) = 10
        /\ AdmittedIn(u, secNow, 1) < 10
        /\ lastCheck.user = u /\ ~lastCheck.allowed /\ lastCheck.time = secNow

\* ------------------------------------------------------------------------
\* Claims about the legacy command processor
\* ------------------------------------------------------------------------

\* C12 as stated: process_message returns a Command for every message.
C12_AlwaysACommand == cmdLast.called => cmdLast.did.returned # {}

\* C12, amended: process_message returns None exactly when parsing fails;
\* when the permission check fails it returns a synthetic Command of type
\* error, status failed, with the error text and the caller's user and
\* channel.
C12_ErrorCommandOrNone ==
    cmdLast.called =>
        /\ cmdLast.did.returned = {} <=> cmdLast.did.parsed = {}
        /\ cmdLast.did.permission \notin {"none", "ok"} =>
              \A c \in cmdLast.did.returned :
                  /\ c.command_type = "error" /\ c.status = "failed"
                  /\ c.error_message = {cmdLast.did.permission} /\ c.result = {}
                  /\ c.user_id = cmdLast.user /\ c.channel_id = cmdLast.channel

\* A permission failure was answered with the synthetic Command.
C12_Witness ==
    /\ cmdLast.called
    /\ cmdLast.did.permission = "admin_required"
    /\ \E c \in cmdLast.did.returned : c.command_type = "error"

\* C13: every message that matches a command pattern and has valid
\* parameters is parsed into a Command with status pending.
C13_EveryMatchParses ==
    (/\ cmdLast.called
     /\ \E t \in FirstMatch(cmdLast.message) : extract_parameters(t, cmdLast.message).ok)
        => \E c \in cmdLast.did.parsed : c.status = "pending"

\* C14: a Command that passed parsing and the permission check goes
\* pending, processing, then completed with the handler's result or failed
\* with the error; what process_message returns is completed or failed.
C14_StatusLifecycle ==
    cmdLast.called =>
        /\ \A c \in cmdLast.did.returned : c.status \in {"completed", "failed"}
        /\ cmdLast.did.permission = "ok" =>
              /\ cmdLast.did.trace \in {<<"pending", "processing", "completed">>,
                                        <<"pending", "processing", "failed">>}
              /\ \A c \in cmdLast.did.final :
                    /\ c.status = cmdLast.did.trace[3]
                    /\ c.status = "completed" =>
                          (c.result # {} /\ c.error_message = {} /\ cmdLast.did.ran
                              /\ cmdLast.did.returned = {c})
                    /\ c.status = "failed" => (c.error_message # {} /\ c.result = {})

\* A handler raised: the Command went pending, processing, failed, and a
\* failed Command came back.
C14_Witness ==
    /\ cmdLast.called
    /\ cmdLast.did.trace = <<"pending", "processing", "failed">>
    /\ \E c \in cmdLast.did.returned : c.status = "failed"

\* C15: a parsed command is rejected exactly when its channel is outside a
\* non-empty allowed-channel set, or it is add, remove or alert and its
\* user is outside a non-empty admin set; the channel is looked at first;
\* a rejected command's handler does not run.
C15_PermissionRule ==
    (cmdLast.called /\ cmdLast.did.parsed # {}) =>
        LET badChannel == allowed_channels # {} /\ cmdLast.channel \notin allowed_channels
            badUser == /\ \E c \in cmdLast.did.parsed : c.command_type \in {"add", "remove", "alert"}
                       /\ admin_users # {} /\ cmdLast.user \notin admin_users
        IN  /\ cmdLast.did.permission # "ok" <=> (badChannel \/ badUser)
            /\ badChannel => cmdLast.did.permission = "channel_not_allowed"
            /\ (badUser /\ ~badChannel) => cmdLast.did.permission = "admin_required"
            /\ cmdLast.did.permission # "ok" =>
                  (~cmdLast.did.ran /\ cmdLast.did.trace = <<"pending">>)

\* Both checks would reject; the channel's rejection is the one reported.
C15_Witness ==
    /\ cmdLast.called
    /\ cmdLast.did.permission = "channel_not_allowed"
    /\ \E c \in cmdLast.did.parsed : c.command_type = "add"
    /\ admin_users # {} /\ cmdLast.user \notin admin_users

\* ------------------------------------------------------------------------
\* Claims about the market data provider
\* ------------------------------------------------------------------------

\* C16: for a valid symbol get_current_price calls the primary source
\* once; it calls the secondary source once exactly when the primary raised
\* and a secondary key is configured, and not at all otherwise; a
\* successful secondary call's price is returned; with no key a primary
\* failure raises without a secondary call.
C16_FallbackOnce ==
    (/\ provLast.called
     /\ provLast.symbol.len \in 1..10 /\ ~provLast.symbol.badchar) =>
        LET keyed == \E k \in alpha_vantage_api_key : k # ""
            failed == provLast.primary # "price"
        IN  /\ provLast.did.primaryCalls = 1
            /\ provLast.did.secondaryCalls = (IF failed /\ keyed THEN 1 ELSE 0)
            /\ ~failed => provLast.did.price = {<<"yahoo", provLast.symbol.text>>}
            /\ (failed /\ keyed /\ provLast.secondary = "price") =>
                  (provLast.did.price = {<<"alpha_vantage", provLast.symbol.text>>}
                      /\ provLast.did.raised = {})
            /\ (failed /\ ~keyed) =>
                  (provLast.did.raised # {} /\ provLast.did.price = {})

\* The primary raised, a key is configured, the secondary's price came back.
C16_Witness ==
    /\ provLast.called
    /\ provLast.primary # "price"
    /\ provLast.did.secondaryCalls = 1
    /\ provLast.did.price = {<<"alpha_vantage", provLast.symbol.text>>}

\* ------------------------------------------------------------------------
\* Claims about the portfolio service
\* ------------------------------------------------------------------------

\* C17: calculate_portfolio_pnl on an existing portfolio returns a report
\* with exactly one line per active holding, whichever price fetches fail;
\* the line of a holding whose fetch failed has the purchase price as its
\* current price and zero unrealized P&L, the other lines have the fetched
\* price.
C17_OneLinePerHolding ==
    (pfLast.op = "pnl" /\ pfLast.portfolio_id \in 1..Len(portfolios)) =>
        LET active == get_portfolio_holdings(holdings, pfLast.portfolio_id)
        IN  /\ pfLast.did.report # {}
            /\ \A report \in pfLast.did.report :
                 /\ Len(report.holdings) = Len(active)
                 /\ \A i \in 1..Len(active) :
                      /\ report.holdings[i].holding_id = active[i].holding_id
                      /\ pfLast.fetch[i] = {} =>
                            /\ report.holdings[i].current_price = active[i].purchase_price
                            /\ report.holdings[i].unrealized_pnl = 0
                      /\ pfLast.fetch[i] # {} =>
                            report.holdings[i].current_price \in pfLast.fetch[i]

\* C18: after handle_portfolio_remove_command(user, S) reported success no
\* active holding of S is left in any of the user's portfolios.
C18_RemovedMeansGone ==
    (pfLast.op = "cmd_remove" /\ pfLast.ok) =>
        \A i \in 1..Len(holdings) :
            ~(/\ holdings[i].is_active
              /\ Upper(holdings[i].symbol) = Upper(pfLast.symbol)
              /\ portfolios[holdings[i].portfolio_id].user_id = pfLast.user_id)

\* C19: handle_portfolio_add_command creates a portfolio exactly when the
\* user had none, otherwise the holding goes to a portfolio the user
\* already had; the add command never creates more than one portfolio for
\* a user.
C19_LazyCreate ==
    /\ pfLast.op = "cmd_add" =>
          /\ pfLast.created <=> pfLast.hadNone
          /\ portfolios[pfLast.portfolio_id].user_id = pfLast.user_id
          /\ pfLast.created => (pfLast.portfolio_id = Len(portfolios)
                                   /\ pfLast.portfolio_id \in addCreated)
          /\ pfLast.ok =>
                /\ holdings[Len(holdings)].portfolio_id = pfLast.portfolio_id
                /\ holdings[Len(holdings)].symbol = Upper(pfLast.symbol)
    /\ \A user_id \in {"user1", "user2"} :
          Cardinality({p \in addCreated : portfolios[p].user_id = user_id}) <= 1

\* The user already had the portfolio that an earlier add command made,
\* and a second add command put its holding there.
C19_Witness ==
    /\ pfLast.op = "cmd_add" /\ pfLast.ok /\ ~pfLast.hadNone
    /\ pfLast.portfolio_id \in addCreated
    /\ Len(get_portfolio_holdings(holdings, pfLast.portfolio_id)) = 2

\* C20: in every P&L report the two totals are the sums over the lines,
\* total_unrealized_pnl is their difference, and the percentage is
\* total_unrealized_pnl / total_purchase_value * 100, or 0 when
\* total_purchase_value is 0.
C20_ReportTotals ==
    \A report \in pfLast.did.report :
        LET purchase == Sum([i \in 1..Len(report.holdings) |->
                                report.holdings[i].purchase_value])
            current == Sum([i \in 1..Len(report.holdings) |->
                                report.holdings[i].current_value])
        IN  /\ report.total_purchase_value = purchase
            /\ report.total_current_value = current
            /\ report.total_unrealized_pnl = current - purchase
            /\ report.total_unrealized_pnl_percent =
                  (IF purchase = 0 THEN <<0, 1>> ELSE Percent(current - purchase, purchase))

\* ------------------------------------------------------------------------
\* Claims about the function entry point and the interaction handlers
\* ------------------------------------------------------------------------

\* C21: a request that passed signature verification is never answered
\* with HTTP 500: an exception while its body is parsed or routed gives
\* HTTP 200 with the type-4 ephemeral failure message.
C21_FailureMessageNot500 ==
    (Handled /\ verify_signature(http.req.sig, http.req.ts, http.req.body)) =>
        /\ http.out.status # 500
        /\ (~JsonLoads(http.req.body) \/ http.req.body[1].k # "doc"
              \/ (http.req.body[1].type = 2 /\ ~http.req.body[1].wf)) =>
               (http.out.status = 200 /\ http.out.kind = "errmsg")

\* C22: the queue consumer, like the asynchronous self-invocation, delivers
\* a command's result by a PATCH to the interaction's
\* webhooks/{application_id}/{token}/messages/@original, never by posting
\* a new message.
C22_DeliveredByPatch ==
    \A i \in 1..Len(queueSent) :
        /\ queueSent[i].method = "PATCH"
        /\ queueSent[i].path = "webhooks/app/token/messages/@original"

C24_NoExceptionText ==
    (entryLast.called /\ entryLast.did.statusCode = 500) =>
        entryLast.did.body \in {"generic", "not_configured", "error"}

\* ------------------------------------------------------------------------
\* Claims about the scheduled P&L sweep
\* ------------------------------------------------------------------------

\* C25: after generate_and_send_pnl_reports every target user has been
\* processed whatever happened to the users before: processed_users is the
\* number of target users and the sum of successful_reports and
\* failed_reports, and errors has one entry per failed user.
C25_EveryUserProcessed ==
    sweepLast.called =>
        LET r == sweepLast.results
            n == Len(sweepLast.target_users)
            failing == {i \in 1..n :
                          process_user_pnl_report(sweepLast.situations[i]).raised}
        IN  /\ r.processed_users = n
            /\ r.processed_users = r.successful_reports + r.failed_reports
            /\ r.failed_reports = Cardinality(failing)
            /\ Len(r.errors) = r.failed_reports
            /\ \A user_id \in {"user1", "user2"} :
                  Cardinality({i \in 1..Len(r.errors) : r.errors[i] = user_id})
                     = Cardinality({i \in failing : sweepLast.target_users[i] = user_id})

\* The first user failed and a later one succeeded.
C25_Witness ==
    /\ sweepLast.called
    /\ Len(sweepLast.target_users) = MaxUsers
    /\ sweepLast.situations[1] = "calc_raises"
    /\ sweepLast.situations[MaxUsers] = "no_portfolio"
    /\ sweepLast.results.successful_reports >= 1
    /\ sweepLast.results.failed_reports >= 1

\* C26: the sweep makes exactly one webhook POST for each target user who
\* has a portfolio and counts that user as succeeded, and none for a user
\* without portfolios.
C26_OneNotificationPerUser ==
    sweepLast.called =>
        /\ \A i \in 1..Len(sweepLast.target_users) :
              sweepLast.results.posts[i] =
                  (IF sweepLast.situations[i] = "portfolio" THEN 1 ELSE 0)
        /\ sweepLast.results.successful_reports >=
              Cardinality({i \in 1..Len(sweepLast.target_users) :
                              sweepLast.situations[i] = "portfolio"})

\* ------------------------------------------------------------------------
\* Claims about the configuration
\* ------------------------------------------------------------------------

C28_TrailingWindow ==
    \A symbol \in {"7203", "AAPL"} :
        LET n == Len(volumeArrived[symbol])
            k == IF n < 20 THEN n ELSE 20
            recent == [i \in 1..k |-> volumeArrived[symbol][n - k + i]]
            average == calculate_average_volume(volume_history, symbol)
        IN  /\ volume_history[symbol] = recent
            /\ k = 0 => average = 0
            /\ k > 0 => /\ average * k <= Sum(recent)
                        /\ Sum(recent) < (average + 1) * k

\* More than twenty samples have arrived for a symbol.
C28_Witness ==
    /\ Len(volumeArrived["7203"]) > VolumeWindow
    /\ Len(volume_history["7203"]) = VolumeWindow
    /\ volume_history["7203"][1] # volumeArrived["7203"][1]
    /\ Sum(volume_history["7203"]) % VolumeWindow # 0

\* ------------------------------------------------------------------------
\* Claims about the lightweight interaction handler
\* ------------------------------------------------------------------------

\* C29: for the same request and public key the lightweight handler
\* answers 401 exactly when the full handler does, and for a verified
\* request both answer PING with 200 {"type": 1} and an interaction type
\* other than 1 and 2 with 400.
C29_HandlersAgree ==
    lightLast.called =>
        LET r == lightLast.req
            full == handle_interaction(1, r, TRUE)
            typed == JsonLoads(r.body) /\ r.body[1].k = "doc"
        IN  /\ (lightLast.out.status = 401) <=> (full.status = 401)
            /\ (lightLast.out.status = 401) <=> ~CryptoValid(r)
            /\ (CryptoValid(r) /\ typed /\ r.body[1].type = 1) =>
                  /\ lightLast.out = [status |-> 200, kind |-> "pong"]
                  /\ full.status = 200 /\ full.kind = "pong"
            /\ (CryptoValid(r) /\ typed /\ r.body[1].type \notin {1, 2}) =>
                  /\ lightLast.out.status = 400
                  /\ full.status = 400

\* A verified PING at the lightweight handler.
C29_Witness ==
    /\ lightLast.called
    /\ CryptoValid(lightLast.req)
    /\ lightLast.req.body[1].type = 1
    /\ lightLast.out.status = 200

\* ------------------------------------------------------------------------
\* Claims about concurrent watch-list commands
\* ------------------------------------------------------------------------

\* C30: whenever /alert for S with threshold T replies with success, the
\* command's own write stored T as the upper threshold of S, whatever
\* /add, /remove or /alert commands on S ran between its read and its
\* write.
C30_SuccessMeansStored ==
    \A i \in Invocations :
        (commands[i].kind = "alert" /\ commands[i].reply = "success") =>
            \E item \in commands[i].stored : item.upper = commands[i].threshold

\* C31: after any /add, /alert and /remove commands, with zero and
\* negative thresholds among the arguments, every stored record has an
\* upper threshold that is absent or strictly positive, and so can still
\* be loaded.
C31_StoredThresholdPositive ==
    /\ \A item \in stocks[WatchSymbol] : \A v \in item.upper : v > 0
    /\ get_monitored_stock(stocks, WatchSymbol, TRUE).result = "ok"

\* C32: of the /add commands for S that run concurrently at most one
\* replies that S was added, S then has its one record, and the write of
\* a /add that finds S monitored leaves the table as it is.
C32_OneAddWins ==
    /\ [](/\ Cardinality({i \in Invocations :
                             commands[i].kind = "add" /\ commands[i].reply = "success"}) <= 1
          /\ (\E i \in Invocations : commands[i].kind = "add" /\ commands[i].reply = "success")
                => Cardinality(stocks[WatchSymbol]) = 1)
    /\ [][\A i \in Invocations :
            (commands[i].kind = "add" /\ commands[i].pc = "write" /\ commands'[i].pc = "done"
                /\ stocks[WatchSymbol] # {})
            => (stocks' = stocks /\ commands'[i].reply # "success")]_vars

\* Two /add commands both found S unmonitored; one added it, the other's
\* conditional write was refused.
C32_Witness ==
    \E i, j \in Invocations :
        /\ commands[i].kind = "add" /\ commands[i].reply = "success"
        /\ commands[j].kind = "add" /\ commands[j].reply = "failed"
        /\ commands[j].existing = {}
        /\ stocks[WatchSymbol] = {Stock(WatchSymbol, {}, {})}

\* ------------------------------------------------------------------------
\* Further claims about the portfolio service
\* ------------------------------------------------------------------------

\* C33: after any add_holding, update_holding and remove_holding calls
\* every active holding has quantity > 0 and purchase_price > 0, and so a
\* purchase value that the P&L percentage can be divided by.
C33_ActiveHoldingsPositive ==
    \A i \in 1..Len(holdings) :
        holdings[i].is_active =>
            /\ holdings[i].quantity > 0
            /\ holdings[i].purchase_price > 0
            /\ calculate(holdings[i], holdings[i].purchase_price) # {}

\* ------------------------------------------------------------------------
\* Further claims about the notification client
\* ------------------------------------------------------------------------

\* C34: with send operations interleaved, the deliveries the webhook
\* accepted within one time_window never number more than max_requests.
C34_DeliveriesUnderLimit ==
    \A i \in 1..Len(requests) :
        Len(InWindow(requests, requests[i])) <= MaxRequestsDefault

\* C35: send_alert records the alert's key when the duplicate check
\* passes, whatever the rate limiter and the webhook then answer, and
\* while the key is held (15 minutes) the same alert is suppressed without
\* a POST, also when the attempt that recorded it was never delivered.
C35_KeyRecordedBeforeDelivery ==
    lastSend.op = "send_alert" =>
        LET key == generate_alert_key(lastSend.alert)
            held == \E x \in lastSend.before[key] : lastSend.time - x <= CooldownMinutes
        IN  /\ held => (~lastSend.ok /\ ~lastSend.posted
                        /\ sent_alerts[key] = lastSend.before[key])
            /\ ~held => sent_alerts[key] = {lastSend.time}
            /\ lastSend.ok => (~held /\ lastSend.posted)

\* An alert is suppressed although nothing was ever delivered: the attempt
\* that recorded its key failed at the webhook.
C35_Witness ==
    /\ lastSend.op = "send_alert"
    /\ lastSend.before[generate_alert_key(lastSend.alert)] # {}
    /\ ~lastSend.ok /\ ~lastSend.posted
    /\ lastSend.reqsBefore = << >>
    /\ now = 0

\* ------------------------------------------------------------------------
\* Claims about the alert repository
\* ------------------------------------------------------------------------

\* C36: check_duplicate_alert(symbol, alert_type, cooldown_minutes) is
\* true exactly when the table holds an alert of that symbol and type
\* triggered within the last cooldown_minutes, for every cooldown.
C36_DuplicateWithinCooldown ==
    dupLast.called =>
        (dupLast.result <=>
            \E a \in dupLast.table :
                /\ a.symbol = dupLast.symbol
                /\ a.alert_type = dupLast.alert_type
                /\ a.triggered_at > dupLast.time - dupLast.cooldown_minutes)

\* ------------------------------------------------------------------------
\* Claims about the portfolio repository
\* ------------------------------------------------------------------------

\* C37: remove_holding on an id that is not in the table returns failure
\* and creates no item; on an item that exists it changes nothing but
\* is_active and updated_at.
C37_RemoveOnlyExisting ==
    repoLast.op = "remove" =>
        LET before == repoLast.before[repoLast.holding_id]
            after == holdings_table[repoLast.holding_id]
        IN  /\ \A h \in HoldingIds \ {repoLast.holding_id} :
                  holdings_table[h] = repoLast.before[h]
            /\ before = {} => (repoLast.result = "false" /\ after = {})
            /\ before # {} =>
                  \E old \in before, new \in after :
                      [new EXCEPT !.is_active = old.is_active,
                                  !.updated_at = old.updated_at] = old

\* ------------------------------------------------------------------------
\* Claims about /chart
\* ------------------------------------------------------------------------

\* C38: the /chart reply gives as start price the close of the earliest
\* data point and as end price the close of the most recent one, the
\* period change is end price minus start price, and the marker has the
\* sign of the change.
C38_StartIsEarliest ==
    (chartLast.called /\ Len(chartLast.rows) > 0) =>
        LET reply == chartLast.reply IN
        /\ reply.found
        /\ reply.start_price = chartLast.rows[1]
        /\ reply.end_price = chartLast.rows[Len(chartLast.rows)]
        /\ reply.price_change = reply.end_price - reply.start_price
        /\ reply.marker = "up" <=> reply.price_change > 0
        /\ reply.marker = "down" <=> reply.price_change < 0

\* ------------------------------------------------------------------------
\* Claims about concurrent process_alerts calls
\* ------------------------------------------------------------------------

\* C39: concurrent process_alerts calls run one at a time under the
\* engine's lock, and across all of them two deliveries of one alert key
\* (symbol, alert type, threshold value) are more than the 30-minute
\* cooldown apart.
C39_OneDeliveryPerCooldown ==
    /\ Cardinality({c \in Callers : engineCalls[c].pc # "idle"}) <= 1
    /\ \A c \in Callers : engineCalls[c].pc # "idle" => engineLock = c
    /\ \A i, j \in 1..Len(alertLog) :
          (i < j /\ alertLog[i].key = alertLog[j].key
              /\ alertLog[i].delivered /\ alertLog[j].delivered)
          => alertLog[j].time - alertLog[i].time > DuplicatePreventionMinutes

\* A second call holds the lock and is about to check an alert whose key
\* an earlier call delivered within the cooldown.
C39_Witness ==
    \E c \in Callers, i \in 1..Len(alertLog) :
        /\ engineCalls[c].pc = "check"
        /\ alertLog[i].delivered
        /\ alertLog[i].key = alert_key(engineCalls[c].alerts[engineCalls[c].i])
        /\ now - alertLog[i].time <= DuplicatePreventionMinutes
        /\ Len(alertLog) >= 2

\* ------------------------------------------------------------------------
\* Further claims about the per-user rate limiter
\* ------------------------------------------------------------------------

\* C40: a rejected check_rate_limit call adds no timestamp: the user's
\* history holds admitted requests only, and a call is admitted exactly
\* when fewer than 10 admitted requests lie in the last minute and fewer
\* than 100 in the last hour, so a user rejected by a soft limit is
\* admitted again once enough admitted requests have aged out.
C40_OnlyAdmittedCount ==
    \A u \in Users :
        LET log == admittedLog[u]
            prior == IF lastCheck.allowed THEN SubSeq(log, 1, Len(log) - 1) ELSE log
            within(length) ==
                Len(SelectSeq(prior, LAMBDA a : a > lastCheck.time - length))
        IN  /\ \E k \in 0..Len(log) : user_requests[u] = SubSeq(log, k + 1, Len(log))
            /\ lastCheck.user = u =>
                  (lastCheck.allowed <=>
                      /\ within(TicksPerMinute) < MaxRequestsPerMinute
                      /\ within(MinutesPerHour * TicksPerMinute) < MaxRequestsPerHour)

\* A call rejected within the last minute, and the user admitted now.
C40_Witness ==
    \E u \in Users :
        /\ lastCheck.user = u /\ lastCheck.allowed /\ lastCheck.time = secNow
        /\ Len(admittedLog[u]) > MaxRequestsPerMinute
        /\ \E i \in 1..Len(recentCalls[u]) :
              /\ recentCalls[u][i] < secNow
              /\ \A j \in 1..Len(admittedLog[u]) : admittedLog[u][j] # recentCalls[u][i]
====
